---- MODULE Spec2Model ----
(***************************************************************************)
(* A model of the posting automation of beyond_belief_py:                  *)
(*   - RedditCacheManager   (services/reddit_cache_manager.py)             *)
(*   - NewsFetcher's cache  (services/news_service.py)                     *)
(*   - NewsAutomationService (services/automation_service.py)              *)
(*   - FacebookService's publish chain (services/facebook_service.py)      *)
(* Each public method is one action; the JSON files are the variables.     *)
(* Four specifications share the variables: SpecCache drives the Reddit    *)
(* cache API, SpecSelect the article selector, SpecAuto the automation     *)
(* cycles and SpecPost one smart_post call.                                *)
(***************************************************************************)
EXTENDS Integers, Sequences, FiniteSets, TLC

VARIABLES
    reddit_cache,     \* db/cache/reddit_cache.json: list of stored posts
    posted_reddit,    \* db/cache/posted_reddit.json: the ever-posted log
    now,              \* datetime.now(), in days
    cres,             \* what the last cache call was given and returned
    marked,           \* identities mark_reddit_post_as_posted ran for since the last reset
    pool,             \* the articles handed to select_article_for_posting
    selected,         \* what select_article_for_posting returned
    fb,               \* the smart_post call: its arguments, downloads, requests and result
    text_req,         \* the post_text call: its message, the message sent, the result
    dl,               \* the download or resolve call: its arguments, steps, files and result
    content_mode,     \* NewsAutomationService.content_mode
    post_news_next,   \* NewsAutomationService.post_news_next
    stats,            \* NewsAutomationService.stats
    news_cache,       \* db/cache/news_cache.json
    posted_articles,  \* db/cache/posted_articles.json
    cyc,              \* what the last create_and_post_content did
    loop,             \* start_automation: where it is, and its scheduled job
    store             \* the four cache files as they are on the disk, and the last call on them

cacheVars == <<reddit_cache, posted_reddit, now, cres, marked>>
selVars == <<pool, selected>>
postVars == <<fb, text_req, dl>>
autoVars == <<content_mode, post_news_next, stats, news_cache, posted_articles, cyc, loop>>
storeVars == <<store>>

\* What the actions of one specification leave alone.
outsideCache == <<selVars, postVars, autoVars, storeVars>>
outsideSelect == <<cacheVars, postVars, autoVars, storeVars>>
outsidePost == <<cacheVars, selVars, autoVars, storeVars>>
outsideAuto == <<cres, marked, now, selVars, postVars, storeVars>>

vars == <<reddit_cache, posted_reddit, now, cres, marked, pool, selected, fb, text_req, dl,
          content_mode, post_news_next, stats, news_cache, posted_articles, cyc, loop, store>>

(***************************************************************************)
(* Bounds                                                                  *)
(***************************************************************************)
MaxBatch == 2        \* longest batch handed to cache_reddit_posts
MaxPostedLog == 2    \* longest posted_reddit.json the cache API run appends to
MaxTime == 1         \* last day of the clock
MaxPool == 3         \* longest list handed to select_article_for_posting
MaxPreviews == 2     \* longest preview_images handed to smart_post
MaxFetch == 2        \* most items an upstream source returns to one fetch
MaxCycles == 3       \* cycles the automation run makes
MaxOver == 20        \* how far around the 1000 characters the message lengths go
MaxMatches == 2      \* most candidate names of one video that answer a probe with anything but a miss
Interval == 2        \* interval_minutes handed to start_automation

(***************************************************************************)
(* Reddit posts.  id = 0 stands for a post without a native id.            *)
(***************************************************************************)
NoId == 0

RedditPost(i, t, s, sub, txt) ==
    [id |-> i, title |-> t, score |-> s, subreddit |-> sub, selftext |-> txt]

\* The posts handed to the cache API: two posts sharing the native id 1 with
\* different content, and a post without a native id whose score ties with one.
RedditPosts ==
    { RedditPost(1, "a", 1, "Paranormal", ""),
      RedditPost(1, "murder house", 2, "Paranormal", ""),
      RedditPost(NoId, "a", 1, "Paranormal", "") }

RECURSIVE SeqsUpTo(_, _)
SeqsUpTo(S, n) ==
    IF n = 0 THEN { <<>> }
    ELSE LET shorter == SeqsUpTo(S, n - 1)
         IN  shorter \cup { Append(q, x) : q \in { r \in shorter : Len(r) = n - 1 }, x \in S }

Batches == SeqsUpTo(RedditPosts, MaxBatch)

Range(seq) == {seq[i] : i \in 1..Len(seq)}

\* _generate_post_id: the native id as a string, else the first 12 hex digits
\* of md5(title + subreddit + created_utc); the title stands for the hashed text.
generate_post_id(reddit_post) ==
    IF reddit_post.id # NoId
    THEN <<"id", reddit_post.id>>
    ELSE <<"md5", reddit_post.title, reddit_post.subreddit>>

\* posted_ids = {post.get('post_id', '') for post in posted_posts}
PostedIds(posted_posts) == { posted_posts[i].post_id : i \in 1..Len(posted_posts) }

\* cached_ids = {self._generate_post_id(post) for post in cached_posts}
CachedIds(cached_posts) == { generate_post_id(cached_posts[i]) : i \in 1..Len(cached_posts) }

\* The record cache_reddit_posts stores for a new post.
StoredPost(post, post_id, t) ==
    [id |-> post.id, title |-> post.title, score |-> post.score,
     subreddit |-> post.subreddit, selftext |-> post.selftext,
     cached_at |-> t, post_id |-> post_id, posted |-> FALSE]

\* list.sort with > in place of >=: equal scores change places.
RECURSIVE InsertByScoreUnstable(_, _)
InsertByScoreUnstable(sorted, x) ==
    IF sorted = <<>> THEN <<x>>
    ELSE IF Head(sorted).score > x.score
         THEN <<Head(sorted)>> \o InsertByScoreUnstable(Tail(sorted), x)
         ELSE <<x>> \o sorted

\* list.sort(key=score, reverse=True): stable, descending.
RECURSIVE InsertByScore(_, _)
InsertByScore(sorted, x) ==
    IF sorted = <<>> THEN <<x>>
    ELSE IF Head(sorted).score >= x.score
         THEN <<Head(sorted)>> \o InsertByScore(Tail(sorted), x)
         ELSE <<x>> \o sorted

RECURSIVE SortByScoreDesc(_)
SortByScoreDesc(posts) ==
    IF posts = <<>> THEN <<>>
    ELSE InsertByScore(SortByScoreDesc(SubSeq(posts, 1, Len(posts) - 1)), posts[Len(posts)])

\* Classify without the posted-log test.
ClassifyIgnorePosted(post, post_id, posted_ids, acc, t) ==
    IF post_id \in acc.cached_ids
    THEN [acc EXCEPT !.duplicate_count = @ + 1]
    ELSE [acc EXCEPT !.new_posts = Append(@, StoredPost(post, post_id, t)),
                     !.cached_ids = @ \cup {post_id}]

\* Classify without the pending-cache test.
ClassifyIgnoreCached(post, post_id, posted_ids, acc, t) ==
    IF post_id \in posted_ids
    THEN [acc EXCEPT !.already_posted_count = @ + 1]
    ELSE [acc EXCEPT !.new_posts = Append(@, StoredPost(post, post_id, t)),
                     !.cached_ids = @ \cup {post_id}]

\* Classify without cached_ids.add(post_id).
ClassifyNoAdd(post, post_id, posted_ids, acc, t) ==
    IF post_id \in posted_ids
    THEN [acc EXCEPT !.already_posted_count = @ + 1]
    ELSE IF post_id \in acc.cached_ids
    THEN [acc EXCEPT !.duplicate_count = @ + 1]
    ELSE [acc EXCEPT !.new_posts = Append(@, StoredPost(post, post_id, t))]

\* The body of the loop of cache_reddit_posts for one post; acc carries
\* new_posts, cached_ids, duplicate_count and already_posted_count.
Classify(post, post_id, posted_ids, acc, t) ==
    IF post_id \in posted_ids
    THEN [acc EXCEPT !.already_posted_count = @ + 1]
    ELSE IF post_id \in acc.cached_ids
    THEN [acc EXCEPT !.duplicate_count = @ + 1]
    ELSE [acc EXCEPT !.new_posts = Append(@, StoredPost(post, post_id, t)),
                     !.cached_ids = @ \cup {post_id}]

RECURSIVE CacheLoop(_, _, _, _, _)
CacheLoop(posts, i, posted_ids, acc, t) ==
    IF i > Len(posts) THEN acc
    ELSE CacheLoop(posts, i + 1, posted_ids,
                   Classify(posts[i], generate_post_id(posts[i]), posted_ids, acc, t), t)

\* cache_reddit_posts: the new cache file, the return value and the three counts.
cache_reddit_posts(cached_posts, posted_posts, posts, t) ==
    IF posts = <<>>
    THEN [cache |-> cached_posts, ret |-> 0,
          new |-> 0, duplicate_count |-> 0, already_posted_count |-> 0]
    ELSE LET acc == CacheLoop(posts, 1, PostedIds(posted_posts),
                              [new_posts |-> <<>>, cached_ids |-> CachedIds(cached_posts),
                               duplicate_count |-> 0, already_posted_count |-> 0], t)
         IN  [cache |-> IF acc.new_posts # <<>>
                        THEN SortByScoreDesc(cached_posts \o acc.new_posts)
                        ELSE cached_posts,
              ret |-> Len(acc.new_posts),
              new |-> Len(acc.new_posts),
              duplicate_count |-> acc.duplicate_count,
              already_posted_count |-> acc.already_posted_count]

RECURSIVE FilterUnposted(_, _)
FilterUnposted(cached_posts, posted_ids) ==
    IF cached_posts = <<>> THEN <<>>
    ELSE LET post == Head(cached_posts)
             rest == FilterUnposted(Tail(cached_posts), posted_ids)
         IN  IF ~post.posted /\ generate_post_id(post) \notin posted_ids
             THEN <<post>> \o rest
             ELSE rest

Take(s, n) == SubSeq(s, 1, IF Len(s) < n THEN Len(s) ELSE n)

\* A result cut to its last `limit` posts (mutation of
\* get_unposted_reddit_posts).
get_lowest_unposted_reddit_posts(cached_posts, posted_posts, limit) ==
    LET unposted == SortByScoreDesc(FilterUnposted(cached_posts, PostedIds(posted_posts)))
    IN  IF limit # 0 /\ limit < Len(unposted)
        THEN SubSeq(unposted, Len(unposted) - limit + 1, Len(unposted))
        ELSE unposted

\* get_unposted_reddit_posts(limit); limit = 0 stands for None.
get_unposted_reddit_posts(cached_posts, posted_posts, limit) ==
    LET unposted == SortByScoreDesc(FilterUnposted(cached_posts, PostedIds(posted_posts)))
    IN  IF limit # 0 THEN Take(unposted, limit) ELSE unposted

\* The for loop of mark_reddit_post_as_posted: flag the first cached post
\* with the identity, then break.
RECURSIVE FlagFirst(_, _)
FlagFirst(cached_posts, post_id) ==
    IF cached_posts = <<>> THEN <<>>
    ELSE IF generate_post_id(Head(cached_posts)) = post_id
         THEN <<[Head(cached_posts) EXCEPT !.posted = TRUE]>> \o Tail(cached_posts)
         ELSE <<Head(cached_posts)>> \o FlagFirst(Tail(cached_posts), post_id)

\* mark_reddit_post_as_posted without the append to the posted log.
MarkFlagOnly(cached_posts, posted_posts, reddit_post) ==
    [cache |-> FlagFirst(cached_posts, generate_post_id(reddit_post)),
     posted |-> posted_posts]

\* mark_reddit_post_as_posted without the flag in the cache.
MarkLogOnly(cached_posts, posted_posts, reddit_post) ==
    [cache |-> cached_posts,
     posted |-> Append(posted_posts, [post_id |-> generate_post_id(reddit_post)])]

\* mark_reddit_post_as_posted: append to the posted log, flag the cached post.
mark_reddit_post_as_posted(cached_posts, posted_posts, reddit_post) ==
    LET post_id == generate_post_id(reddit_post)
    IN  [cache |-> FlagFirst(cached_posts, post_id),
         posted |-> Append(posted_posts, [post_id |-> post_id])]

RECURSIVE FreshPosts(_, _)
FreshPosts(cached_posts, cutoff_date) ==
    IF cached_posts = <<>> THEN <<>>
    ELSE IF Head(cached_posts).cached_at > cutoff_date
         THEN <<Head(cached_posts)>> \o FreshPosts(Tail(cached_posts), cutoff_date)
         ELSE FreshPosts(Tail(cached_posts), cutoff_date)

\* clean_old_reddit_posts(days_old): the cache file afterwards and removed_count.
clean_old_reddit_posts(cached_posts, t, days_old) ==
    LET fresh_posts == FreshPosts(cached_posts, t - days_old)
    IN  [cache |-> fresh_posts, removed_count |-> Len(cached_posts) - Len(fresh_posts)]

\* get_reddit_cache_stats: the unposted count looks at the flag alone.
get_reddit_cache_stats(cached_posts, posted_posts) ==
    LET unposted_count == Cardinality({i \in 1..Len(cached_posts) : ~cached_posts[i].posted})
    IN  [total_cached |-> Len(cached_posts),
         unposted |-> unposted_count,
         posted_from_cache |-> Len(cached_posts) - unposted_count,
         total_posted_ever |-> Len(posted_posts)]

\* The record of the last cache call: nothing called yet.
NoCall == [op |-> "none", len |-> 0, ret |-> 0,
           new |-> 0, duplicate_count |-> 0, already_posted_count |-> 0]

\* The Reddit cache files as RedditCacheManager.__init__ leaves them.
CacheFresh ==
    /\ reddit_cache = <<>>
    /\ posted_reddit = <<>>
    /\ now = 0
    /\ cres = NoCall
    /\ marked = {}

(***************************************************************************)
(* News articles and select_article_for_posting                            *)
(***************************************************************************)
\* str.lower() on the words the model's titles and categories are made of.
Lower(w) ==
    CASE w = "Ghost" -> "ghost"
      [] w = "Fatal" -> "fatal"
      [] w = "UFO" -> "ufo"
      [] w = "Politics" -> "politics"
      [] w = "Paranormal" -> "paranormal"
      [] w = "UFOs" -> "ufos"
      [] w = "I SAW it, for real" -> "i saw it, for real"
      [] OTHER -> w

\* A title is the list of its words (title.split()); the text is their join.
sensitive_keywords == {"death", "accident", "murder", "rape", "suicide"}

\* keyword in title_lower: a substring test; of the model's words only
\* "grapes" holds a keyword without being one.
WordHasKeyword(w) == Lower(w) \in sensitive_keywords \/ Lower(w) = "grapes"

TitleIsSensitive(title) == \E i \in 1..Len(title) : WordHasKeyword(title[i])

boosted_categories == {"politics", "business", "technology"}

Article(t, d, img, pub, cat) ==
    [title |-> t, description |-> d, image_url |-> img, pubDate |-> pub, category |-> cat]

LongDescription == "A lamp was seen moving through the locked fort at night."
ShortDescription == "A lamp was seen."

\* ArticleScore with the penalty taken once for every word of the title that
\* holds a keyword (mutation of ArticleScore).
ArticleScorePerKeyword(article) ==
      (IF article.image_url # "" THEN 10 ELSE 0)
    + (IF article.pubDate # "" THEN 5 ELSE 0)
    + (IF article.description # "" /\ Len(article.description) > 50 THEN 5 ELSE 0)
    + (IF \E i \in 1..Len(article.category) :
             article.category[i] # "" /\ Lower(article.category[i]) \in boosted_categories
       THEN 8 ELSE 0)
    - 20 * Cardinality({i \in 1..Len(article.title) : WordHasKeyword(article.title[i])})

\* The score the loop of select_article_for_posting gives one article.
ArticleScore(article) ==
      (IF article.image_url # "" THEN 10 ELSE 0)
    + (IF article.pubDate # "" THEN 5 ELSE 0)
    + (IF article.description # "" /\ Len(article.description) > 50 THEN 5 ELSE 0)
    + (IF \E i \in 1..Len(article.category) :
             article.category[i] # "" /\ Lower(article.category[i]) \in boosted_categories
       THEN 8 ELSE 0)
    - (IF TitleIsSensitive(article.title) THEN 20 ELSE 0)

\* scored_articles, each with its place in the input list.
ScoredArticles(articles) ==
    [i \in 1..Len(articles) |->
        [item |-> articles[i], score |-> ArticleScore(articles[i]), idx |-> i]]

None == [none |-> TRUE]

\* select_article_for_posting: None for an empty list, else the head of the
\* list sorted by score, descending.
select_article_for_posting(articles) ==
    IF articles = <<>> THEN None
    ELSE SortByScoreDesc(ScoredArticles(articles))[1].item

\* The articles the selector is run on: scores 10, 18, 10, 0, 0 and 28.
SelArticles ==
    { Article(<<"Ghost", "seen", "in", "old", "fort">>, ShortDescription, "http://img/1.jpg", "", <<>>),
      Article(<<"Ghost", "seen", "in", "old", "fort">>, "", "http://img/2.jpg", "", <<"top", "Politics">>),
      Article(<<"lights", "over", "hills">>, LongDescription, "", "2024-05-01 10:00:00", <<"top">>),
      Article(<<"lights", "over", "hills">>, "", "", "", <<>>),
      Article(<<"Fatal", "accident", "kills", "five">>, LongDescription, "http://img/3.jpg", "2024-05-01 10:00:00", <<>>),
      Article(<<"UFO", "lands">>, LongDescription, "http://img/4.jpg", "not a date", <<"technology">>) }

Pools == SeqsUpTo(SelArticles, MaxPool)

\* selected before the selector has been called, and when it is not in use.
Pending == [pending |-> TRUE]
Idle == [idle |-> TRUE]

SelIdle ==
    /\ pool = <<>>
    /\ selected = Idle

\* No smart_post and no post_text call has been made.
PostIdle ==
    /\ fb = Idle
    /\ text_req = Idle
    /\ dl = Idle

\* No call on the files of the cache is being looked at.
StoreIdle == store = Idle

\* No cycle has run.
NoCycle == [post_type |-> "none", success |-> FALSE, fetched |-> FALSE, already |-> FALSE, content |-> "not asked", calls |-> <<>>, item |-> None]

\* The automation service as __init__ leaves it, on empty cache files.
\* start_automation has not been called: no job is scheduled (due, the
\* minutes until the job is due, means nothing yet) and no
\* create_and_post_content call is in progress.
NotStarted == [pc |-> "not started", due |-> 0, in_progress |-> 0]

AutoFresh ==
    /\ content_mode = "mixed"
    /\ post_news_next = TRUE
    /\ stats = [total_posts |-> 0, successful_posts |-> 0, failed_posts |-> 0,
                news_posts |-> 0, reddit_posts |-> 0]
    /\ news_cache = <<>>
    /\ posted_articles = <<>>
    /\ cyc = NoCycle
    /\ loop = NotStarted

InitSelect ==
    /\ CacheFresh
    /\ PostIdle
    /\ AutoFresh
    /\ StoreIdle
    /\ pool \in Pools
    /\ selected = Pending

SelectArticleForPosting ==
    /\ selected = Pending
    /\ selected' = select_article_for_posting(pool)
    /\ UNCHANGED <<pool, outsideSelect>>

\* The caller hands over the next candidate list.
NextPool ==
    /\ selected # Pending
    /\ pool' \in Pools
    /\ selected' = Pending
    /\ UNCHANGED outsideSelect

NextSelect ==
    \/ SelectArticleForPosting
    \/ NextPool

SpecSelect == InitSelect /\ [][NextSelect]_vars

(***************************************************************************)
(* The cache API as actions                                                *)
(***************************************************************************)
InitCache ==
    /\ CacheFresh
    /\ SelIdle
    /\ PostIdle
    /\ AutoFresh
    /\ StoreIdle

CacheRedditPosts ==
    \E posts \in Batches :
        LET r == cache_reddit_posts(reddit_cache, posted_reddit, posts, now)
        IN  /\ reddit_cache' = r.cache
            /\ cres' = [op |-> "cache", len |-> Len(posts),
                        ret |-> r.ret, new |-> r.new,
                        duplicate_count |-> r.duplicate_count,
                        already_posted_count |-> r.already_posted_count]
            /\ UNCHANGED <<posted_reddit, now, marked, outsideCache>>

GetUnpostedRedditPosts ==
    \E limit \in 0..2 :
        /\ cres' = [NoCall EXCEPT !.op = "get",
                                   !.ret = Len(get_unposted_reddit_posts(reddit_cache, posted_reddit, limit))]
        /\ UNCHANGED <<reddit_cache, posted_reddit, now, marked, outsideCache>>

MarkRedditPostAsPosted ==
    /\ Len(posted_reddit) < MaxPostedLog
    /\ \E reddit_post \in RedditPosts :
        LET r == mark_reddit_post_as_posted(reddit_cache, posted_reddit, reddit_post)
        IN  /\ reddit_cache' = r.cache
            /\ posted_reddit' = r.posted
            /\ marked' = marked \cup {generate_post_id(reddit_post)}
            /\ cres' = [NoCall EXCEPT !.op = "mark"]
            /\ UNCHANGED <<now, outsideCache>>

CleanOldRedditPosts ==
    \E days_old \in 1..1 :
        LET r == clean_old_reddit_posts(reddit_cache, now, days_old)
        IN  /\ reddit_cache' = r.cache
            /\ cres' = [NoCall EXCEPT !.op = "clean", !.ret = r.removed_count]
            /\ UNCHANGED <<posted_reddit, now, marked, outsideCache>>

ResetRedditCache ==
    /\ reddit_cache' = <<>>
    /\ posted_reddit' = <<>>
    /\ marked' = {}
    /\ cres' = [NoCall EXCEPT !.op = "reset"]
    /\ UNCHANGED <<now, outsideCache>>

Tick ==
    /\ now < MaxTime
    /\ now' = now + 1
    /\ UNCHANGED <<reddit_cache, posted_reddit, cres, marked, outsideCache>>

NextCache ==
    \/ CacheRedditPosts
    \/ GetUnpostedRedditPosts
    \/ MarkRedditPostAsPosted
    \/ CleanOldRedditPosts
    \/ ResetRedditCache
    \/ Tick

SpecCache == InitCache /\ [][NextCache]_vars

(***************************************************************************)
(* Claims about the Reddit cache (checked under SpecCache)                 *)
(***************************************************************************)
Limits == 0..2

CountId(cached_posts, post_id) ==
    Cardinality({ i \in 1..Len(cached_posts) : generate_post_id(cached_posts[i]) = post_id })

BatchIds(posts) == { generate_post_id(posts[i]) : i \in 1..Len(posts) }

\* C2: once mark_reddit_post_as_posted has run for a post, no result of
\* get_unposted_reddit_posts, whatever the limit, holds a post with that
\* identity, in any state reached by cache, get, mark and clean calls.
C2_MonotonicPosting ==
    \A limit \in Limits :
        LET unposted == get_unposted_reddit_posts(reddit_cache, posted_reddit, limit)
        IN  \A i \in 1..Len(unposted) : generate_post_id(unposted[i]) \notin marked

\* C2 witness: a marked post was offered again to cache_reddit_posts.
C2_Witness ==
    /\ marked # {}
    /\ cres.op = "cache"
    /\ cres.already_posted_count > 0

\* C34: for every limit, get_unposted_reddit_posts returns posts that are
\* unposted in the cache, in non-increasing order of score; with a limit it
\* returns `limit` of them, or all when there are fewer, and without one
\* all of them; and no unposted post left out has a higher score than a
\* post returned.
C34_TopUnposted ==
    \A limit \in Limits :
        LET returned == get_unposted_reddit_posts(reddit_cache, posted_reddit, limit)
            unposted == FilterUnposted(reddit_cache, PostedIds(posted_reddit))
        IN  /\ \A i \in 1..Len(returned), j \in 1..Len(returned) :
                  i < j => returned[i].score >= returned[j].score
            /\ Range(returned) \subseteq Range(unposted)
            /\ Len(returned) = IF limit # 0 /\ limit < Len(unposted) THEN limit ELSE Len(unposted)
            /\ \A post \in Range(unposted) \ Range(returned) :
                  \A i \in 1..Len(returned) : returned[i].score >= post.score

\* A call with limit 1 returned one of two unposted posts of different
\* scores.
C34_Witness ==
    /\ cres.op = "get"
    /\ cres.ret = 1
    /\ LET unposted == FilterUnposted(reddit_cache, PostedIds(posted_reddit))
       IN  /\ Len(unposted) = 2
           /\ unposted[1].score # unposted[2].score

\* Every cached record is flagged as posted exactly when its identity is in
\* the posted log.
FlagsAgree(cached_posts, posted_posts) ==
    \A i \in 1..Len(cached_posts) :
        cached_posts[i].posted <=> generate_post_id(cached_posts[i]) \in PostedIds(posted_posts)

\* The step is a mark_reddit_post_as_posted for a post that is not cached.
MarksUncached ==
    /\ cres'.op = "mark"
    /\ posted_reddit'[Len(posted_reddit')].post_id \notin CachedIds(reddit_cache)

\* C36: the flags and the log agree when the cache is new, and every
\* cache_reddit_posts, clean_old_reddit_posts, reset_reddit_cache, and
\* mark_reddit_post_as_posted of a cached post, keeps them in agreement;
\* where they agree, the unposted count of get_reddit_cache_stats is the
\* number of posts get_unposted_reddit_posts() returns.
C36_FlagAgreesWithLog ==
    /\ FlagsAgree(reddit_cache, posted_reddit)
    /\ [][(FlagsAgree(reddit_cache, posted_reddit) /\ ~MarksUncached) =>
            /\ FlagsAgree(reddit_cache', posted_reddit')
            /\ get_reddit_cache_stats(reddit_cache', posted_reddit').unposted
                   = Len(get_unposted_reddit_posts(reddit_cache', posted_reddit', 0))]_vars

\* A cached post was marked while another stays unposted: one record is
\* flagged and logged, the other neither.
C36_Witness ==
    /\ cres.op = "mark"
    /\ Len(reddit_cache) = 2
    /\ FlagsAgree(reddit_cache, posted_reddit)
    /\ get_reddit_cache_stats(reddit_cache, posted_reddit).unposted = 1
    /\ get_reddit_cache_stats(reddit_cache, posted_reddit).total_posted_ever = 1

C7_UniqueIdentity ==
    /\ \A i, j \in 1..Len(reddit_cache) :
        generate_post_id(reddit_cache[i]) = generate_post_id(reddit_cache[j]) => i = j
    /\ \A posts \in Batches :
        LET r == cache_reddit_posts(reddit_cache, posted_reddit, posts, now)
        IN  \A i \in 1..Len(reddit_cache) :
                \E j \in 1..Len(r.cache) : r.cache[j] = reddit_cache[i]

\* C7 witness: a batch of two posts with one identity was cached into an empty
\* cache: one stored, one counted as duplicate.
C7_Witness ==
    /\ cres.op = "cache"
    /\ cres.len = 2
    /\ cres.new = 1
    /\ cres.duplicate_count = 1
    /\ Len(reddit_cache) = 1

\* C8: the three counts of a cache_reddit_posts call sum to the batch size,
\* the return value is the newly-cached count, and no call stores a post
\* whose identity is in the posted log.
C8_Classification ==
    /\ cres.op = "cache" =>
        /\ cres.new + cres.duplicate_count + cres.already_posted_count = cres.len
        /\ cres.ret = cres.new
    /\ \A posts \in Batches :
        LET r == cache_reddit_posts(reddit_cache, posted_reddit, posts, now)
        IN  /\ r.new + r.duplicate_count + r.already_posted_count = Len(posts)
            /\ r.ret = r.new
            /\ Len(r.cache) = Len(reddit_cache) + r.new
            /\ \A k \in PostedIds(posted_reddit) :
                CountId(r.cache, k) = CountId(reddit_cache, k)

\* C8 witness: one call classified a post as already posted and another as new.
C8_Witness ==
    /\ cres.op = "cache"
    /\ cres.already_posted_count >= 1
    /\ cres.new >= 1

(***************************************************************************)
(* Claims about select_article_for_posting (checked under SpecSelect)      *)
(***************************************************************************)
\* The places of the input list in the order the sort leaves them.
RankedIdx(articles) ==
    LET sorted == SortByScoreDesc(ScoredArticles(articles))
    IN  [k \in 1..Len(sorted) |-> sorted[k].idx]

PoolScores == [i \in 1..Len(pool) |-> ArticleScore(pool[i])]

\* C10: for an empty list the selector returns None; otherwise it returns the
\* first article of the list that has the maximum score, and the sort ranks
\* the list by score, descending, equal scores keeping their input order
\* (scores 10, 18, 10 rank as second, first, third).
C10_SelectStable ==
    (selected # Pending /\ selected # Idle) =>
        /\ pool = <<>> => selected = None
        /\ pool # <<>> =>
            \E i \in 1..Len(pool) :
                /\ selected = pool[i]
                /\ \A j \in 1..Len(pool) : PoolScores[j] <= PoolScores[i]
                /\ \A j \in 1..(i - 1) : PoolScores[j] < PoolScores[i]
        /\ LET r == RankedIdx(pool)
           IN  /\ Len(r) = Len(pool)
               /\ \A k \in 1..Len(pool) : \E m \in 1..Len(r) : r[m] = k
               /\ \A a, b \in 1..Len(r) :
                    a < b => \/ PoolScores[r[a]] > PoolScores[r[b]]
                             \/ PoolScores[r[a]] = PoolScores[r[b]] /\ r[a] < r[b]
        /\ PoolScores = <<10, 18, 10>> => RankedIdx(pool) = <<2, 1, 3>>

\* C10 witness: the selector ran on three articles scoring 10, 18, 10, the
\* two tied ones being different articles, and returned the second.
C10_Witness ==
    /\ selected # Pending /\ selected # Idle
    /\ PoolScores = <<10, 18, 10>>
    /\ pool[1] # pool[3]
    /\ selected = pool[2]

\* C10 witness of the tie: two different articles share the maximum score and
\* the earlier one was returned.
C10_TieWitness ==
    /\ selected # Pending /\ selected # Idle
    /\ Len(pool) = 2
    /\ PoolScores[1] = PoolScores[2]
    /\ pool[1] # pool[2]
    /\ selected = pool[1]

\* C11: a title with a sensitive keyword costs an article 20 points against
\* the same article under a clean title, and the selector never returns a
\* sensitive article while the pool holds a non-sensitive one no more than
\* 20 points below the sensitive article's score before the penalty.
C11_SensitivePenalty ==
    /\ \A a \in SelArticles :
          ~TitleIsSensitive(a.title) =>
              ArticleScore([a EXCEPT !.title = <<"Fatal", "accident", "kills", "five">>])
                  = ArticleScore(a) - 20
    /\ (selected # Pending /\ selected # Idle /\ selected # None) =>
          (TitleIsSensitive(selected.title) =>
              \A j \in 1..Len(pool) :
                  LET before_penalty == ArticleScore(selected) + 20
                  IN  ~TitleIsSensitive(pool[j].title) =>
                          before_penalty - PoolScores[j] > 20)

\* The fields the score looks at, in every combination.
ScoreArticles ==
    { Article(t, d, img, pub, cat) :
        t \in { <<"lights", "over", "hills">>, <<"Fatal", "accident", "kills", "five">>,
                <<"murder", "suicide", "case">>, <<"grapes", "harvest">> },
        d \in {"", ShortDescription, LongDescription},
        img \in {"", "http://img/1.jpg"},
        pub \in {"", "2024-05-01 10:00:00", "not a date"},
        cat \in { <<>>, <<"top">>, <<"top", "Politics">>, <<"technology">>, <<"", "business">> } }

Points(cond, n) == IF cond THEN n ELSE 0

\* The score the claim gives an article.
ClaimedScore(a) ==
      Points(a.image_url # "", 10)
    + Points(a.pubDate # "", 5)
    + Points(Len(a.description) > 50, 5)
    + Points(\E c \in Range(a.category) : Lower(c) \in {"politics", "business", "technology"}, 8)
    - Points(\E w \in Range(a.title) : WordHasKeyword(w), 20)

\* C12: the score of an article is 10 for an image_url, 5 for a pubDate of
\* any value, 5 for a description over 50 characters, 8 for a boosted
\* category, less 20, once, for a sensitive title; and the selector ranks
\* the pool by that score.
C12_ArticleScore ==
    /\ \A a \in ScoreArticles : ArticleScore(a) = ClaimedScore(a)
    /\ \A i \in 1..Len(pool) : PoolScores[i] = ClaimedScore(pool[i])
    /\ (selected # Pending /\ selected # Idle /\ selected # None) =>
          \A i \in 1..Len(pool) : ClaimedScore(pool[i]) <= ClaimedScore(selected)

\* The selector returned the article that scores 28 with a pubDate that is
\* no date, ahead of the sensitive article that the penalty leaves at 0.
C12_Witness ==
    /\ selected # Pending /\ selected # Idle /\ selected # None
    /\ selected.pubDate = "not a date"
    /\ ClaimedScore(selected) = 28
    /\ \E i \in 1..Len(pool) : TitleIsSensitive(pool[i].title) /\ PoolScores[i] = 0

(***************************************************************************)
(* FacebookService: the publish requests                                   *)
(***************************************************************************)
\* What the Graph API answers to one publish request: 200 with the post
\* id, 400, or any other failure (another status, a transport error).
Responses == {"ok", "400", "error"}

\* A 400 whose message names the access token or an expired session: what
\* the API answers to every request made with an expired page token.
AuthError == "400 auth"
Answers(token_ok) == IF token_ok THEN Responses ELSE {AuthError}
Is400(resp) == resp \in {"400", AuthError}

\* File sizes in MB on either side of the two limits.
ImageLimitMB == 4
VideoLimitMB == 100
ImageSizes == {1, 5}
VideoSizes == {1, 5, 101}

Req(tier, resp) == [tier |-> tier, resp |-> resp]

\* A call either returns the JSON of its last request or raises.
Returned(reqs) == [reqs |-> reqs, res |-> "ok"]
Raised(reqs, exc) == [reqs |-> reqs, res |-> exc]
Succeeded(S) == {o \in S : o.res = "ok"}
Failed(S) == {o \in S : o.res # "ok"}

\* "try: return S  except: return T"
OrElse(S, T) ==
    Succeeded(S) \cup
    {[reqs |-> o.reqs \o t.reqs, res |-> t.res] : o \in Failed(S), t \in T}

\* The calls of S made after the requests reqs were sent.
After(reqs, S) == {[reqs |-> reqs \o o.reqs, res |-> o.res] : o \in S}

\* post_text: on a 400 the ValueError raised for the message, token error
\* or not, is caught by the bare except around it, which raises
\* ValueError("Facebook API returned 400 Bad Request"); any other failure
\* raises RequestException.
post_text_on(resp) ==
    CASE resp = "ok" -> Returned(<<Req("text", resp)>>)
      [] Is400(resp) -> Raised(<<Req("text", resp)>>, "ValueError")
      [] OTHER -> Raised(<<Req("text", resp)>>, "RequestException")

post_text(token_ok) == {post_text_on(resp) : resp \in Answers(token_ok)}

\* post_image with no text fallback on a 400 (mutation of post_image_on).
post_image_no_fallback(resp, token_ok) ==
    CASE resp = "ok" -> {Returned(<<Req("image", resp)>>)}
      [] Is400(resp) -> {Raised(<<Req("image", resp)>>, "ValueError")}
      [] OTHER -> After(<<Req("image", resp)>>, post_text(token_ok))

\* post_image once the photo request is answered: a 400 falls back to
\* post_text inside the inner try, again in its bare except and once more
\* in the outer handler; any other failure falls back once.  The message
\* of the 400 is printed, not examined.
post_image_on(resp, token_ok) ==
    CASE resp = "ok" -> {Returned(<<Req("image", resp)>>)}
      [] Is400(resp) ->
            After(<<Req("image", resp)>>,
                  OrElse(OrElse(post_text(token_ok), post_text(token_ok)),
                         post_text(token_ok)))
      [] OTHER -> After(<<Req("image", resp)>>, post_text(token_ok))

\* post_image: a file over 4 MB goes to post_text without a photo request.
post_image(file_size, token_ok) ==
    IF file_size > ImageLimitMB
    THEN OrElse(post_text(token_ok), post_text(token_ok))
    ELSE UNION {post_image_on(resp, token_ok) : resp \in Answers(token_ok)}

\* post_video that re-raises a 400 (mutation of post_video_on).
post_video_no_fallback(resp, file_size, token_ok) ==
    CASE resp = "ok" -> {Returned(<<Req("video", resp)>>)}
      [] Is400(resp) -> {Raised(<<Req("video", resp)>>, "ValueError")}
      [] OTHER -> After(<<Req("video", resp)>>, post_image(file_size, token_ok))

\* post_video once the video request is answered: a 400 hands the same
\* file to post_image, with the same three nested retries.
post_video_on(resp, file_size, token_ok) ==
    CASE resp = "ok" -> {Returned(<<Req("video", resp)>>)}
      [] Is400(resp) ->
            After(<<Req("video", resp)>>,
                  OrElse(OrElse(post_image(file_size, token_ok), post_image(file_size, token_ok)),
                         post_image(file_size, token_ok)))
      [] OTHER -> After(<<Req("video", resp)>>, post_image(file_size, token_ok))

\* post_video: a file over 100 MB or without a video header is handed to
\* post_image without a video request.
post_video(file_size, is_valid_video, token_ok) ==
    IF file_size > VideoLimitMB \/ ~is_valid_video
    THEN OrElse(post_image(file_size, token_ok), post_image(file_size, token_ok))
    ELSE UNION {post_video_on(resp, file_size, token_ok) : resp \in Answers(token_ok)}

(***************************************************************************)
(* FacebookService.smart_post: getting the media, then publishing          *)
(***************************************************************************)
\* A URL, as far as the code looks at it: what it contains and how it ends.
Url(host, ext) == [host |-> host, ext |-> ext]
NoUrl == Url("", "")
MediaUrls ==
    { NoUrl,
      Url("v.redd.it", ""),
      Url("i.redd.it", ".jpg"),
      Url("reddit.com/gallery/", "") }

video_extensions == {".mp4", ".mov", ".avi", ".mkv", ".webm", ".flv", ".wmv", ".m4v"}
video_domains == {"v.redd.it", "gfycat.com", "imgur.com/a/", "streamable.com"}

is_video_url(url) ==
    /\ url # NoUrl
    /\ \/ url.ext \in video_extensions
       \/ url.host \in video_domains

\* preview_images: for each entry, whether it carries a url.
PreviewLists == SeqsUpTo(BOOLEAN, MaxPreviews)

\* One download or generation attempt and whether it produced a file.
Attempt(what, idx, ok) == [what |-> what, idx |-> idx, ok |-> ok]
Got(log, is_video) == [log |-> log, got |-> TRUE, is_video |-> is_video]
NotGot(log) == [log |-> log, got |-> FALSE, is_video |-> FALSE]

\* "if not media_path: T" after the attempts of S.
Else(S, T) ==
    {o \in S : o.got} \cup
    {[log |-> o.log \o t.log, got |-> t.got, is_video |-> t.is_video] :
        o \in {x \in S : ~x.got}, t \in T}

\* Up to n attempts on one source, stopping at the first file.
Attempts(what, idx, n) ==
    LET fails(k) == [i \in 1..k |-> Attempt(what, idx, FALSE)]
    IN  {Got(Append(fails(k - 1), Attempt(what, idx, TRUE)), what = "video") : k \in 1..n}
        \cup {NotGot(fails(n))}

\* The loop over preview_images from entry i on: entries without a url
\* are skipped, the first file ends the loop.
RECURSIVE PreviewLoop(_, _, _)
PreviewLoop(preview_images, i, tries) ==
    IF i > Len(preview_images) THEN {NotGot(<<>>)}
    ELSE IF ~preview_images[i] THEN PreviewLoop(preview_images, i + 1, tries)
    ELSE Else(Attempts("preview", i, tries),
              PreviewLoop(preview_images, i + 1, tries))

\* A fallback that never looks at preview_images (mutation of ElsePreviews).
ElsePreviewsSkipped(S, preview_images, tries) == S

\* "if not media_path and preview_images: <loop>"
ElsePreviews(S, preview_images, tries) ==
    IF preview_images = <<>> THEN S
    ELSE Else(S, PreviewLoop(preview_images, 1, tries))

\* STEP 1: the main media URL.
MainMedia(media_url, preview_images) ==
    IF media_url = NoUrl THEN {NotGot(<<>>)}
    ELSE IF is_video_url(media_url)
    THEN ElsePreviews(Attempts("video", 0, 3), preview_images, 1)
    ELSE IF media_url.host = "reddit.com/gallery/"
    THEN ElsePreviews({NotGot(<<>>)}, preview_images, 2)
    ELSE ElsePreviews(Attempts("image", 0, 3), preview_images, 1)

\* generate_image_with_ai: the downloaded image, or None (no Meta AI, no
\* image in its answer, a failed download).
generate_image_with_ai == Attempts("ai", 0, 1)

\* STEPS 1 to 3 with a STEP 3 that does not look at the title and the
\* description (mutation of GetMedia).
GetMediaUntitled(media_url, preview_images, has_text) ==
    LET step1 == MainMedia(media_url, preview_images)
        step2 == ElsePreviews(step1, preview_images, 1)
    IN  Else(step2, generate_image_with_ai)

\* STEPS 1 to 3.
GetMedia(media_url, preview_images, has_text) ==
    LET step1 == MainMedia(media_url, preview_images)
        step2 == ElsePreviews(step1, preview_images, 1)
    IN  IF has_text THEN Else(step2, generate_image_with_ai) ELSE step2

\* The file media_path names, and what post_video / post_image find in it.
MediaPath == "media_path"
MediaFiles(is_video) ==
    IF is_video
    THEN {[size |-> sz, is_valid_video |-> v] : sz \in VideoSizes, v \in BOOLEAN}
    ELSE {[size |-> sz, is_valid_video |-> FALSE] : sz \in ImageSizes}

\* What the publish call of STEP 4 can do with each file.
PublishVideo == [file \in MediaFiles(TRUE), token_ok \in BOOLEAN |-> post_video(file.size, file.is_valid_video, token_ok)]
PublishImage == [file \in MediaFiles(FALSE), token_ok \in BOOLEAN |-> post_image(file.size, token_ok)]

\* STEP 4 for one obtained file: publish, then unlink when the call returned.
PostMedia(g, file, token_ok) ==
    LET disk == {MediaPath}
        posts == IF g.is_video THEN PublishVideo[file, token_ok] ELSE PublishImage[file, token_ok]
    IN  {[log |-> g.log, is_video |-> g.is_video, media |-> <<file>>,
          reqs |-> o.reqs, res |-> o.res,
          files |-> IF o.res = "ok" THEN disk \ {MediaPath} ELSE disk] : o \in posts}

PostNoMedia(g, token_ok) ==
    {[log |-> g.log, is_video |-> g.is_video, media |-> <<>>,
      reqs |-> o.reqs, res |-> o.res, files |-> {}] : o \in post_text(token_ok)}

\* smart_post with a page token that is, or is not, still valid.
smart_post(media_url, preview_images, has_text, token_ok) ==
    LET media == GetMedia(media_url, preview_images, has_text)
    IN  UNION {IF g.got
               THEN UNION {PostMedia(g, file, token_ok) : file \in MediaFiles(g.is_video)}
               ELSE PostNoMedia(g, token_ok) : g \in media}

InitPost ==
    /\ CacheFresh
    /\ SelIdle
    /\ PostIdle
    /\ AutoFresh
    /\ StoreIdle

SmartPost ==
    /\ fb = Idle
    /\ \E media_url \in MediaUrls, preview_images \in PreviewLists,
          has_text \in BOOLEAN, token_ok \in BOOLEAN :
        \E r \in smart_post(media_url, preview_images, has_text, token_ok) :
            fb' = [media_url |-> media_url, preview_images |-> preview_images,
                   has_text |-> has_text, call |-> r]
    /\ UNCHANGED <<text_req, dl, outsidePost>>

\* The caller takes the result; the service is ready for the next call.
SmartPostDone ==
    /\ fb # Idle
    /\ fb' = Idle
    /\ UNCHANGED <<text_req, dl, outsidePost>>

NextPost ==
    \/ SmartPost
    \/ SmartPostDone

SpecPost == InitPost /\ [][NextPost]_vars

(***************************************************************************)
(* FacebookService.post_text: the message it sends                         *)
(***************************************************************************)
TextLimit == 1000

\* A string of n characters.
RECURSIVE Chars(_)
Chars(n) ==
    IF n = 0 THEN ""
    ELSE IF n % 2 = 0 THEN LET half == Chars(n \div 2) IN half \o half
    ELSE Chars(n - 1) \o "a"

\* Messages of every length around the limit, an empty and a long one;
\* each ends in a character of its own.
MessageLengths == {0, 1500} \cup ((TextLimit - MaxOver)..(TextLimit + MaxOver))
Messages == {IF n = 0 THEN "" ELSE Chars(n - 1) \o "z" : n \in MessageLengths}

\* A cut that leaves no room for the marker (mutation of truncate).
truncate_then_mark(message) ==
    IF Len(message) > TextLimit
    THEN SubSeq(message, 1, TextLimit) \o "..."
    ELSE message

\* "if len(message) > 1000: message = message[:997] + '...'"
truncate(message) ==
    IF Len(message) > TextLimit
    THEN SubSeq(message, 1, TextLimit - 3) \o "..."
    ELSE message

InitText ==
    /\ CacheFresh
    /\ SelIdle
    /\ PostIdle
    /\ AutoFresh
    /\ StoreIdle

\* post_text(message): the request carries the message after the cut.
PostText ==
    /\ text_req = Idle
    /\ \E message \in Messages, resp \in Responses :
          text_req' = [message |-> message, sent |-> truncate(message),
                       call |-> post_text_on(resp)]
    /\ UNCHANGED <<fb, dl, outsidePost>>

PostTextDone ==
    /\ text_req # Idle
    /\ text_req' = Idle
    /\ UNCHANGED <<fb, dl, outsidePost>>

NextText ==
    \/ PostText
    \/ PostTextDone

SpecText == InitText /\ [][NextText]_vars

\* C22: the message post_text sends has at most 1000 characters; a message
\* of at most 1000 characters is sent as it is; a longer one is sent as its
\* first 997 characters followed by the three-character marker "...".
C22_TextCeiling ==
    text_req # Idle =>
        /\ Len(text_req.sent) <= 1000
        /\ Len(text_req.message) <= 1000 => text_req.sent = text_req.message
        /\ Len(text_req.message) > 1000 =>
              /\ Len(text_req.sent) = 1000
              /\ SubSeq(text_req.sent, 998, 1000) = "..."
              /\ SubSeq(text_req.sent, 1, 997) = SubSeq(text_req.message, 1, 997)

\* A message of 1500 characters went out as 1000.
C22_Witness ==
    /\ text_req # Idle
    /\ Len(text_req.message) = 1500
    /\ Len(text_req.sent) = 1000
    /\ text_req.call.res = "ok"

\* A message of exactly 1000 characters went out whole.
C22_AtLimitWitness ==
    /\ text_req # Idle
    /\ Len(text_req.message) = 1000
    /\ text_req.sent = text_req.message

(***************************************************************************)
(* Claims about smart_post (checked under SpecPost)                        *)
(***************************************************************************)
\* C4: when the video publish request is answered 400, the same file is
\* retried through post_image (a photo request, or straight to text when the
\* file is over the photo limit); when that photo request fails too, the
\* message is retried through post_text; and when that text request
\* succeeds, smart_post returns its response, three requests in all.  A call
\* returns exactly when its last request succeeded.
C4_PostFallbackChain ==
    fb # Idle =>
        LET reqs == fb.call.reqs
        IN  /\ (fb.call.res = "ok") = (reqs[Len(reqs)].resp = "ok")
            /\ reqs[1] = Req("video", "400") =>
                /\ Len(reqs) >= 2
                /\ reqs[2].tier = IF fb.call.media[1].size > ImageLimitMB
                                  THEN "text" ELSE "image"
                /\ (reqs[2].tier = "image" /\ reqs[2].resp # "ok") =>
                    /\ Len(reqs) >= 3
                    /\ reqs[3].tier = "text"
                    /\ reqs[3].resp = "ok" =>
                        /\ Len(reqs) = 3
                        /\ fb.call.res = "ok"

\* A call that went video 400, photo 400, text 200 and returned.
C4_Witness ==
    /\ fb # Idle
    /\ fb.call.is_video
    /\ fb.call.reqs = <<Req("video", "400"), Req("image", "400"), Req("text", "ok")>>
    /\ fb.call.res = "ok"

\* C5: by the time smart_post exits, returning or raising, the media file
\* it obtained is gone from the disk.
C5_MediaFileDeleted ==
    fb # Idle => fb.call.files = {}

\* The attempts of a call after the three failed downloads of its video URL.
AfterVideo == SubSeq(fb.call.log, 4, Len(fb.call.log))
WithUrl == {i \in 1..Len(fb.preview_images) : fb.preview_images[i]}
VideoUrlFailed ==
    /\ fb # Idle
    /\ is_video_url(fb.media_url)
    /\ Len(fb.call.log) >= 3
    /\ \A k \in 1..3 : fb.call.log[k] = Attempt("video", 0, FALSE)

\* C14: when the three downloads of the video URL all fail, the previews
\* that carry a url are tried next and in list order (a later preview only
\* after every earlier one has failed), and the post goes out without media
\* only after each of them has failed; when there is no preview and no
\* generated image, the call ends with no media and publishes through the
\* text tier alone; and the only exceptions a call can end with are those
\* of its publish requests.
C14_MediaFallback ==
    /\ VideoUrlFailed =>
          /\ WithUrl # {} =>
                /\ AfterVideo # <<>>
                /\ AfterVideo[1].what = "preview"
                /\ \A j \in WithUrl : AfterVideo[1].idx <= j
          /\ \A k \in 1..Len(AfterVideo) :
                AfterVideo[k].what = "preview" =>
                    /\ AfterVideo[k].idx \in WithUrl
                    /\ \A j \in WithUrl :
                          j < AfterVideo[k].idx =>
                              \E k2 \in 1..(k - 1) : AfterVideo[k2] = Attempt("preview", j, FALSE)
          /\ fb.call.media = <<>> =>
                \A j \in WithUrl :
                    \E k \in 1..Len(AfterVideo) : AfterVideo[k] = Attempt("preview", j, FALSE)
          /\ (fb.preview_images = <<>> /\ Attempt("ai", 0, TRUE) \notin Range(AfterVideo)) =>
                /\ fb.call.media = <<>>
                /\ fb.call.reqs # <<>>
                /\ \A k \in 1..Len(fb.call.reqs) : fb.call.reqs[k].tier = "text"
    /\ fb # Idle =>
          /\ fb.call.res \in {"ok", "ValueError", "RequestException"}
          /\ fb.call.res # "ok" => fb.call.reqs[Len(fb.call.reqs)].resp # "ok"

\* The video URL failed three times, both previews failed in order in each
\* of the two passes, no image was generated, and the text was published.
C14_Witness ==
    /\ VideoUrlFailed
    /\ fb.preview_images = <<TRUE, TRUE>>
    /\ fb.has_text
    /\ AfterVideo = << Attempt("preview", 1, FALSE), Attempt("preview", 2, FALSE),
                       Attempt("preview", 1, FALSE), Attempt("preview", 2, FALSE),
                       Attempt("ai", 0, FALSE) >>
    /\ fb.call.media = <<>>
    /\ fb.call.reqs = <<Req("text", "ok")>>
    /\ fb.call.res = "ok"

\* No preview to fall back on and no generated image: text only.
C14_TextOnlyWitness ==
    /\ VideoUrlFailed
    /\ fb.preview_images = <<>>
    /\ AfterVideo = <<Attempt("ai", 0, FALSE)>>
    /\ fb.call.media = <<>>
    /\ fb.call.reqs = <<Req("text", "ok")>>

\* C15: a publish request answered with a token or session error is the
\* last request of its smart_post call (no image or text fallback follows
\* it), and the call ends with an error that differs from the one a generic
\* 400 and the one a transport error end it with.
C15_AuthErrorNotRetried ==
    fb # Idle =>
        \A k \in 1..Len(fb.call.reqs) :
            fb.call.reqs[k].resp = AuthError =>
                /\ k = Len(fb.call.reqs)
                /\ fb.call.res \notin {"ok", post_text_on("400").res, post_text_on("error").res}

\* The attempts of the call that went to the image generator.
Generations == {k \in 1..Len(fb.call.log) : fb.call.log[k].what = "ai"}

\* C27: generate_image_with_ai is called only as the last attempt of a
\* smart_post call, after every attempt before it failed, with the main
\* URL (unless it is absent or a gallery) and every preview that carries a
\* url among them, and only when the title or the description is not
\* empty; it is never called after an attempt produced a file, and never
\* when both are empty.
C27_GenerativeLast ==
    fb # Idle =>
        /\ \A k \in Generations :
              /\ fb.has_text
              /\ k = Len(fb.call.log)
              /\ \A j \in 1..(k - 1) : ~fb.call.log[j].ok /\ fb.call.log[j].what # "ai"
              /\ (fb.media_url # NoUrl /\ fb.media_url.host # "reddit.com/gallery/") =>
                    \E j \in 1..(k - 1) : fb.call.log[j].what \in {"video", "image"}
              /\ \A i \in WithUrl :
                    \E j \in 1..(k - 1) : fb.call.log[j] = Attempt("preview", i, FALSE)
        /\ ~fb.has_text => Generations = {}

\* The image URL and both previews failed, and the generator, called for
\* a titled item, returned the image that was posted.
C27_Witness ==
    /\ fb # Idle
    /\ fb.has_text
    /\ fb.media_url = Url("i.redd.it", ".jpg")
    /\ Len(fb.preview_images) = 2
    /\ WithUrl = {1, 2}
    /\ fb.call.log[Len(fb.call.log)] = Attempt("ai", 0, TRUE)
    /\ fb.call.media # <<>>

\* Nothing could be downloaded for an item without title and description:
\* the generator was not called and the post went out as text.
C27_NoTextWitness ==
    /\ fb # Idle
    /\ ~fb.has_text
    /\ fb.call.log # <<>>
    /\ \A k \in 1..Len(fb.call.log) : ~fb.call.log[k].ok
    /\ fb.call.media = <<>>

\* The publish requests of one tier the smart_post call sent.
TierRequests(tier) ==
    Cardinality({k \in 1..Len(fb.call.reqs) : fb.call.reqs[k].tier = tier})

\* C39: a smart_post call sends at most one video publish request, at most
\* one image publish request and at most one text publish request.
C39_OncePerTier ==
    fb # Idle => \A tier \in {"video", "image", "text"} : TierRequests(tier) <= 1

(***************************************************************************)
(* NewsFetcher: the news cache                                             *)
(***************************************************************************)
\* The articles the news API serves: two whose titles differ only in case,
\* one whose title is too short to be kept, and one more.
NewsArticles ==
    { Article(<<"Ghost", "seen", "in", "old", "fort">>, ShortDescription, "http://img/1.jpg", "", <<>>),
      Article(<<"ghost", "seen", "in", "old", "fort">>, "", "", "", <<>>),
      Article(<<"UFO", "lands">>, LongDescription, "http://img/4.jpg", "", <<"technology">>),
      Article(<<"lights", "over", "hills">>, LongDescription, "", "2024-05-01 10:00:00", <<"top">>) }

NewsBatches == SeqsUpTo(NewsArticles, MaxFetch)

\* What fetch_and_cache_reddit_posts can return to one cycle.
RedditFetches == SeqsUpTo(RedditPosts, MaxFetch)

\* len(' '.join(words))
RECURSIVE JoinLen(_)
JoinLen(words) ==
    IF words = <<>> THEN 0
    ELSE Len(Head(words)) + (IF Len(words) > 1 THEN 1 ELSE 0) + JoinLen(Tail(words))

\* title.lower().split()[:6]
simple_title(article) ==
    [i \in 1..(IF Len(article.title) < 6 THEN Len(article.title) ELSE 6) |->
        Lower(article.title[i])]

\* _remove_duplicates on the titles as they are written, without lower()
\* (mutation of remove_duplicates).
RECURSIVE remove_duplicates_cased(_, _)
remove_duplicates_cased(articles, seen_titles) ==
    IF articles = <<>> THEN <<>>
    ELSE LET title == Head(articles).title
             key == SubSeq(title, 1, IF Len(title) < 6 THEN Len(title) ELSE 6)
         IN  IF key \notin seen_titles /\ key # <<>> /\ JoinLen(key) > 10
             THEN <<Head(articles)>> \o remove_duplicates_cased(Tail(articles), seen_titles \cup {key})
             ELSE remove_duplicates_cased(Tail(articles), seen_titles)

\* _remove_duplicates: keep the first article of each key, and no article
\* whose key is empty or at most 10 characters long.
RECURSIVE remove_duplicates(_, _)
remove_duplicates(articles, seen_titles) ==
    IF articles = <<>> THEN <<>>
    ELSE LET key == simple_title(Head(articles))
         IN  IF key \notin seen_titles /\ key # <<>> /\ JoinLen(key) > 10
             THEN <<Head(articles)>> \o remove_duplicates(Tail(articles), seen_titles \cup {key})
             ELSE remove_duplicates(Tail(articles), seen_titles)

\* article.update({'posted': False, ...})
Unposted(article) ==
    [title |-> article.title, description |-> article.description,
     image_url |-> article.image_url, pubDate |-> article.pubDate,
     category |-> article.category, posted |-> FALSE]

\* fetch_bulk_news on what the API returned: the list _save_cache writes
\* over news_cache.json, which is also the list returned.
fetch_bulk_news(results) ==
    remove_duplicates([i \in 1..Len(results) |-> Unposted(results[i])], {})

get_cached_articles(articles) == SelectSeq(articles, LAMBDA a : ~a.posted)

\* The loop of mark_as_posted: flag the first article with the title.
RECURSIVE FlagFirstTitle(_, _)
FlagFirstTitle(articles, title) ==
    IF articles = <<>> THEN <<>>
    ELSE IF Head(articles).title = title
         THEN <<[Head(articles) EXCEPT !.posted = TRUE]>> \o Tail(articles)
         ELSE <<Head(articles)>> \o FlagFirstTitle(Tail(articles), title)

mark_as_posted(articles, posted, article) ==
    [cache |-> FlagFirstTitle(articles, article.title),
     posted |-> Append(posted, [title |-> article.title])]

PostedTitles(posted) == {posted[i].title : i \in 1..Len(posted)}

(***************************************************************************)
(* RedditCacheManager.select_best_reddit_post                              *)
(***************************************************************************)
\* word in title
Contains(str, word) ==
    \E i \in 1..(Len(str) - Len(word) + 1) : SubSeq(str, i, i + Len(word) - 1) = word

engaging_words == {"help", "experience", "happened", "saw", "heard", "real", "true"}

\* The composite score, in tenths of a point: min(score / 10, 50), 20 for
\* a selftext over 50 characters, 15 or 10 for the subreddit, 5 for each
\* engaging word in the title.
CompositeScore(post) ==
      (IF post.score < 500 THEN post.score ELSE 500)
    + (IF post.selftext # "" /\ Len(post.selftext) > 50 THEN 200 ELSE 0)
    + (IF Lower(post.subreddit) \in {"paranormal", "ghosts", "highstrangeness"} THEN 150
       ELSE IF Lower(post.subreddit) \in {"ufos", "aliens", "cryptids"} THEN 100
       ELSE 0)
    + 50 * Cardinality({word \in engaging_words : Contains(Lower(post.title), word)})

\* A selection among all the unposted posts (mutation of
\* select_best_reddit_post).
select_best_of_all_reddit_posts(cached_posts, posted_posts) ==
    LET unposted == get_unposted_reddit_posts(cached_posts, posted_posts, 0)
        scored_posts == [i \in 1..Len(unposted) |->
                            [item |-> unposted[i], score |-> CompositeScore(unposted[i])]]
    IN  IF unposted = <<>> THEN None
        ELSE SortByScoreDesc(scored_posts)[1].item

select_best_reddit_post(cached_posts, posted_posts) ==
    LET unposted == get_unposted_reddit_posts(cached_posts, posted_posts, 20)
        scored_posts == [i \in 1..Len(unposted) |->
                            [item |-> unposted[i], score |-> CompositeScore(unposted[i])]]
    IN  IF unposted = <<>> THEN None
        ELSE SortByScoreDesc(scored_posts)[1].item

(***************************************************************************)
(* NewsAutomationService: one cycle                                        *)
(***************************************************************************)
valid_modes == {"mixed", "reddit_only", "news_only"}

\* What the content generator hands back: a text, nothing, or None when the
\* content is rejected.
Contents == {"text", "", "None"}

\* What smart_post hands back: a response with the post id, a response
\* without one, or an exception.
SmartPostResults == {"id", "no id", "raised"}

\* A generated content that is posted whenever it is not empty (mutation
\* of Usable).
UsableUnlessEmpty(facebook_content) == facebook_content # ""

\* "if facebook_content is None: return False / elif not facebook_content:
\* return False": only a non-empty text goes on to smart_post.
Usable(facebook_content) == facebook_content \notin {"None", ""}

\* ensure_articles_available that fetches whenever fewer than two unposted
\* articles are left (mutation of ensure_articles_available).
ensure_articles_refresh_early(articles, results) ==
    LET unposted_articles == get_cached_articles(articles)
    IN  IF Len(unposted_articles) >= 2
        THEN [available |-> unposted_articles, cache |-> articles, fetched |-> FALSE]
        ELSE LET new_articles == fetch_bulk_news(results)
             IN  [available |-> new_articles, cache |-> new_articles, fetched |-> TRUE]

\* ensure_articles_available: the unposted articles of the cache if there
\* are any, else a fetch, which replaces the cache.
ensure_articles_available(articles, results) ==
    LET unposted_articles == get_cached_articles(articles)
    IN  IF unposted_articles # <<>>
        THEN [available |-> unposted_articles, cache |-> articles, fetched |-> FALSE]
        ELSE LET new_articles == fetch_bulk_news(results)
             IN  [available |-> new_articles, cache |-> new_articles, fetched |-> TRUE]

\* A cycle that marks the article once it has been handed to smart_post,
\* published or not (mutation of post_news_content).
post_news_content_skipping_failed(articles, posted, results, facebook_content, facebook_response) ==
    LET e == ensure_articles_available(articles, results)
        article == select_article_for_posting(e.available)
        generated == e.available # <<>>
        smart_posted == generated /\ Usable(facebook_content)
        success == smart_posted /\ facebook_response = "id"
        m == mark_as_posted(e.cache, posted, article)
    IN  [success |-> success,
         cache |-> IF smart_posted THEN m.cache ELSE e.cache,
         posted |-> IF smart_posted THEN m.posted ELSE posted,
         fetched |-> e.fetched,
         already |-> success /\ article.title \in PostedTitles(posted),
         item |-> article,
         content |-> IF generated THEN facebook_content ELSE "not asked",
         calls |-> <<"ensure_articles_available">>
                   \o (IF generated
                       THEN <<"select_article_for_posting", "generate_content_from_news">>
                       ELSE <<>>)
                   \o (IF smart_posted THEN <<"smart_post">> ELSE <<>>)
                   \o (IF success THEN <<"mark_as_posted">> ELSE <<>>)]

\* _post_news_content, given what the news API, the content generator and
\* smart_post answer if they are asked.
post_news_content(articles, posted, results, facebook_content, facebook_response) ==
    LET e == ensure_articles_available(articles, results)
        article == select_article_for_posting(e.available)
        generated == e.available # <<>>
        smart_posted == generated /\ Usable(facebook_content)
        success == smart_posted /\ facebook_response = "id"
        m == mark_as_posted(e.cache, posted, article)
    IN  [success |-> success,
         cache |-> IF success THEN m.cache ELSE e.cache,
         posted |-> IF success THEN m.posted ELSE posted,
         fetched |-> e.fetched,
         already |-> success /\ article.title \in PostedTitles(posted),
         item |-> article,
         content |-> IF generated THEN facebook_content ELSE "not asked",
         calls |-> <<"ensure_articles_available">>
                   \o (IF generated
                       THEN <<"select_article_for_posting", "generate_content_from_news">>
                       ELSE <<>>)
                   \o (IF smart_posted THEN <<"smart_post">> ELSE <<>>)
                   \o (IF success THEN <<"mark_as_posted">> ELSE <<>>)]

\* The first part of _post_reddit_content: the unposted posts of the cache
\* if there are any, else a fetch whose posts are cached.
ensure_reddit_available(cached_posts, posted_posts, new_reddit_posts, t) ==
    LET unposted_reddit == get_unposted_reddit_posts(cached_posts, posted_posts, 10)
    IN  IF unposted_reddit # <<>>
        THEN [available |-> unposted_reddit, cache |-> cached_posts, fetched |-> FALSE]
        ELSE IF new_reddit_posts # <<>>
        THEN LET c == cache_reddit_posts(cached_posts, posted_posts, new_reddit_posts, t).cache
             IN  [available |-> get_unposted_reddit_posts(c, posted_posts, 10),
                  cache |-> c, fetched |-> TRUE]
        ELSE [available |-> unposted_reddit, cache |-> cached_posts, fetched |-> TRUE]

\* _post_reddit_content.
post_reddit_content(cached_posts, posted_posts, new_reddit_posts, facebook_content, facebook_response, t) ==
    LET e == ensure_reddit_available(cached_posts, posted_posts, new_reddit_posts, t)
        reddit_post == select_best_reddit_post(e.cache, posted_posts)
        generated == e.available # <<>>
        smart_posted == generated /\ Usable(facebook_content)
        success == smart_posted /\ facebook_response = "id"
        m == mark_reddit_post_as_posted(e.cache, posted_posts, reddit_post)
    IN  [success |-> success,
         cache |-> IF success THEN m.cache ELSE e.cache,
         posted |-> IF success THEN m.posted ELSE posted_posts,
         fetched |-> e.fetched,
         already |-> success /\ generate_post_id(reddit_post) \in PostedIds(posted_posts),
         item |-> reddit_post,
         content |-> IF generated THEN facebook_content ELSE "not asked",
         calls |-> <<"get_unposted_reddit_posts">>
                   \o (IF e.fetched THEN <<"fetch_and_cache_reddit_posts">> ELSE <<>>)
                   \o (IF generated
                       THEN <<"select_best_reddit_post", "generate_content_from_reddit">>
                       ELSE <<>>)
                   \o (IF smart_posted THEN <<"smart_post">> ELSE <<>>)
                   \o (IF success THEN <<"mark_reddit_post_as_posted">> ELSE <<>>)]

\* A post type taken from the flag in every mode (mutation of PostType).
PostTypeByFlag(mode, news_next) == IF news_next THEN "news" ELSE "reddit"

\* The post type create_and_post_content settles on.
PostType(mode, news_next) ==
    IF mode = "reddit_only" THEN "reddit"
    ELSE IF mode = "news_only" THEN "news"
    ELSE IF news_next THEN "news" ELSE "reddit"

\* The flag after a cycle that always toggles (mutation of NextFlag).
NextFlagAlways(mode, news_next, success) ==
    IF mode = "mixed" THEN ~news_next ELSE news_next

\* The flag after a cycle that gives the other source its turn when it
\* fails (mutation of NextFlag).
NextFlagOnFailure(mode, news_next, success) ==
    IF ~success /\ mode = "mixed" THEN ~news_next ELSE news_next

\* post_news_next after a cycle: toggled by a success in mixed mode only.
NextFlag(mode, news_next, success) ==
    IF success /\ mode = "mixed" THEN ~news_next ELSE news_next

\* A failed cycle that adds to total_posts alone (mutation of NextStats).
NextStatsFailureUncounted(st, post_type, success) ==
    IF success
    THEN [st EXCEPT !.news_posts = IF post_type = "news" THEN @ + 1 ELSE @,
                    !.reddit_posts = IF post_type = "reddit" THEN @ + 1 ELSE @,
                    !.total_posts = @ + 1,
                    !.successful_posts = @ + 1]
    ELSE [st EXCEPT !.total_posts = @ + 1]

\* stats after a cycle.
NextStats(st, post_type, success) ==
    IF success
    THEN [st EXCEPT !.news_posts = IF post_type = "news" THEN @ + 1 ELSE @,
                    !.reddit_posts = IF post_type = "reddit" THEN @ + 1 ELSE @,
                    !.total_posts = @ + 1,
                    !.successful_posts = @ + 1]
    ELSE [st EXCEPT !.total_posts = @ + 1, !.failed_posts = @ + 1]

InitAuto ==
    /\ CacheFresh
    /\ SelIdle
    /\ PostIdle
    /\ AutoFresh
    /\ StoreIdle

\* The upstream answers one cycle can meet: the news API and Reddit answer
\* only when the cycle fetches, smart_post only when there is a text to post.
NewsAnswers(post_type) ==
    IF post_type = "news" /\ ensure_articles_available(news_cache, <<>>).fetched
    THEN NewsBatches ELSE {<<>>}

RedditAnswers(post_type) ==
    IF post_type = "reddit"
       /\ ensure_reddit_available(reddit_cache, posted_reddit, <<>>, now).fetched
    THEN RedditFetches ELSE {<<>>}

SmartPostAnswers(facebook_content) ==
    IF Usable(facebook_content) THEN SmartPostResults ELSE {"not called"}

Cycle ==
    /\ stats.total_posts < MaxCycles
    /\ LET post_type == PostType(content_mode, post_news_next)
       IN  \E results \in NewsAnswers(post_type),
              new_reddit_posts \in RedditAnswers(post_type),
              facebook_content \in Contents :
            \E facebook_response \in SmartPostAnswers(facebook_content) :
                \E r \in {IF post_type = "news"
                          THEN post_news_content(news_cache, posted_articles, results,
                                                 facebook_content, facebook_response)
                          ELSE post_reddit_content(reddit_cache, posted_reddit,
                                                   new_reddit_posts, facebook_content,
                                                   facebook_response, now)} :
                    /\ news_cache' = IF post_type = "news" THEN r.cache ELSE news_cache
                    /\ posted_articles' =
                           IF post_type = "news" THEN r.posted ELSE posted_articles
                    /\ reddit_cache' = IF post_type = "reddit" THEN r.cache ELSE reddit_cache
                    /\ posted_reddit' =
                           IF post_type = "reddit" THEN r.posted ELSE posted_reddit
                    /\ post_news_next' = NextFlag(content_mode, post_news_next, r.success)
                    /\ stats' = NextStats(stats, post_type, r.success)
                    /\ cyc' = [post_type |-> post_type, success |-> r.success,
                               fetched |-> r.fetched, already |-> r.already,
                               content |-> r.content, calls |-> r.calls,
                               item |-> r.item]
    /\ UNCHANGED <<content_mode, outsideAuto>>

\* create_and_post_content called on its own (main.py, single post).
CreateAndPostContent ==
    /\ Cycle
    /\ UNCHANGED loop

\* set_content_mode, which main.py calls between construction and the
\* first cycle.
SetContentMode ==
    /\ cyc = NoCycle
    /\ \E mode \in valid_modes : content_mode' = mode
    /\ UNCHANGED <<post_news_next, stats, news_cache, posted_articles, cyc, loop,
                   reddit_cache, posted_reddit, outsideAuto>>

NextAuto ==
    \/ CreateAndPostContent
    \/ SetContentMode

SpecAuto == InitAuto /\ [][NextAuto]_vars

(***************************************************************************)
(* NewsAutomationService.start_automation: the scheduler loop              *)
(***************************************************************************)
\* loop.pc is where start_automation stands: "first" inside the first
\* create_and_post_content call, "pending" at schedule.run_pending(), "job"
\* inside the create_and_post_content the scheduler runs, "sleep" in
\* time.sleep(60), "stopped" once it has returned or raised.
Running == {"first", "pending", "job", "sleep"}
InCycle == {"first", "job"}

\* A scheduler that starts a due job while the last one is still running
\* (mutation of ShouldRun).
ShouldRunThreaded(pc, due) == pc \in {"pending", "first", "job"} /\ due = 0

\* schedule.run_pending() runs the job when it is called and the job is
\* due, in the thread that called it.
ShouldRun(pc, due) == pc = "pending" /\ due = 0

\* A cycle whose failure leaves create_and_post_content as an exception
\* (mutation of AfterCycle).
AfterCycleRaising(pc, success) ==
    IF ~success THEN "stopped" ELSE IF pc = "first" THEN "pending" ELSE "sleep"

\* Where start_automation goes on when create_and_post_content returns:
\* success or not, the first call is followed by the loop, a scheduled one
\* by the rest of the iteration and its sleep.
AfterCycle(pc, success) == IF pc = "first" THEN "pending" ELSE "sleep"

InitLoop ==
    /\ CacheFresh
    /\ SelIdle
    /\ PostIdle
    /\ AutoFresh
    /\ StoreIdle

\* start_automation up to its first create_and_post_content call: the job
\* is scheduled interval_minutes from now.
StartAutomation ==
    /\ loop.pc = "not started"
    /\ loop' = [pc |-> "first", due |-> Interval, in_progress |-> loop.in_progress + 1]
    /\ UNCHANGED <<content_mode, post_news_next, stats, news_cache, posted_articles, cyc,
                   reddit_cache, posted_reddit, outsideAuto>>

\* run_pending finds the job due and calls create_and_post_content.
StartJob ==
    /\ ShouldRun(loop.pc, loop.due)
    /\ loop' = [loop EXCEPT !.pc = "job", !.in_progress = @ + 1]
    /\ UNCHANGED <<content_mode, post_news_next, stats, news_cache, posted_articles, cyc,
                   reddit_cache, posted_reddit, outsideAuto>>

\* run_pending finds nothing due; the iteration goes to sleep.
NothingPending ==
    /\ loop.pc = "pending"
    /\ loop.due > 0
    /\ loop' = [loop EXCEPT !.pc = "sleep"]
    /\ UNCHANGED <<content_mode, post_news_next, stats, news_cache, posted_articles, cyc,
                   reddit_cache, posted_reddit, outsideAuto>>

\* create_and_post_content returns to start_automation; the scheduler sets
\* the next run of a job it ran interval_minutes from its end.
FinishCycle ==
    /\ loop.pc \in InCycle
    /\ Cycle
    /\ loop' = [pc |-> AfterCycle(loop.pc, cyc'.success),
                due |-> IF loop.pc = "job" THEN Interval ELSE loop.due,
                in_progress |-> loop.in_progress - 1]

\* A minute passes: the job is a minute closer to due, and a sleeping loop
\* wakes up.  A cycle in progress takes as many minutes as it takes.
Minute ==
    /\ loop.pc \in InCycle \cup {"sleep"}
    /\ loop' = [loop EXCEPT !.due = IF @ > 0 THEN @ - 1 ELSE 0,
                            !.pc = IF @ = "sleep" THEN "pending" ELSE @]
    /\ UNCHANGED <<content_mode, post_news_next, stats, news_cache, posted_articles, cyc,
                   reddit_cache, posted_reddit, outsideAuto>>

\* Ctrl+C: KeyboardInterrupt passes "except Exception" and ends the loop.
KeyboardInterrupt ==
    /\ loop.pc \in Running
    /\ loop' = [loop EXCEPT !.pc = "stopped", !.in_progress = 0]
    /\ UNCHANGED <<content_mode, post_news_next, stats, news_cache, posted_articles, cyc,
                   reddit_cache, posted_reddit, outsideAuto>>

NextLoop ==
    \/ StartAutomation
    \/ StartJob
    \/ NothingPending
    \/ FinishCycle
    \/ Minute
    \/ KeyboardInterrupt

SpecLoop == InitLoop /\ [][NextLoop]_vars

\* The loop keeps taking its steps and the minutes keep passing; whether a
\* cycle in progress ever returns, and whether Ctrl+C is pressed, is left
\* open.
SpecLoopFair ==
    /\ SpecLoop
    /\ WF_vars(StartAutomation)
    /\ WF_vars(StartJob)
    /\ WF_vars(NothingPending)
    /\ WF_vars(Minute)

(***************************************************************************)
(* Claims about the automation cycles (checked under SpecAuto)             *)
(***************************************************************************)
\* A step that is one create_and_post_content.
IsCycle == stats'.total_posts = stats.total_posts + 1

\* C1: in mixed mode the service starts with news next; every cycle attempts
\* the type the flag names; a successful cycle flips the flag and a failed
\* one leaves it, so the next cycle attempts the same type again; nothing
\* else touches the flag.  Hence the successful cycles go news, Reddit,
\* news, ...: the news count is the Reddit count, or one more exactly when
\* Reddit is next.
C1_MixedAlternation ==
    /\ post_news_next = TRUE
    /\ [](content_mode = "mixed" =>
            /\ stats.news_posts - stats.reddit_posts \in {0, 1}
            /\ post_news_next = (stats.news_posts = stats.reddit_posts))
    /\ [][/\ (IsCycle /\ content_mode = "mixed") =>
              /\ cyc'.post_type = IF post_news_next THEN "news" ELSE "reddit"
              /\ post_news_next' = IF cyc'.success THEN ~post_news_next
                                   ELSE post_news_next
          /\ ~IsCycle => post_news_next' = post_news_next]_vars

\* A mixed run of one news post, one Reddit post and one failed cycle,
\* ending on the successful Reddit cycle.
C1_Witness ==
    /\ content_mode = "mixed"
    /\ stats.news_posts = 1
    /\ stats.reddit_posts = 1
    /\ stats.failed_posts = 1
    /\ cyc.post_type = "reddit"
    /\ cyc.success

\* C3: an article in the ever-posted log is never pending in the news cache
\* again, and no news cycle publishes an article that was in the log when
\* the cycle began.
C3_NoDoublePosting ==
    /\ \A i \in 1..Len(news_cache) :
          ~news_cache[i].posted =>
              news_cache[i].title \notin PostedTitles(posted_articles)
    /\ (cyc.post_type = "news" /\ cyc.success) => ~cyc.already

Titles(articles) == [i \in 1..Len(articles) |-> articles[i].title]
Ids(posts) == [i \in 1..Len(posts) |-> generate_post_id(posts[i])]

\* C9: a cycle fetches from upstream only when the unposted pool of its
\* source is empty as it begins; when the pool is not empty the cycle does
\* not fetch, the cache keeps its items, and what it publishes comes from
\* the pool.
C9_CacheFirst ==
    [][IsCycle =>
        IF cyc'.post_type = "news"
        THEN LET unposted == get_cached_articles(news_cache)
             IN  /\ cyc'.fetched => unposted = <<>>
                 /\ unposted # <<>> =>
                     /\ ~cyc'.fetched
                     /\ Titles(news_cache') = Titles(news_cache)
                     /\ cyc'.success =>
                           posted_articles'[Len(posted_articles')].title
                               \in Range(Titles(unposted))
        ELSE LET unposted == get_unposted_reddit_posts(reddit_cache, posted_reddit, 0)
             IN  /\ cyc'.fetched => unposted = <<>>
                 /\ unposted # <<>> =>
                     /\ ~cyc'.fetched
                     /\ Ids(reddit_cache') = Ids(reddit_cache)
                     /\ cyc'.success =>
                           posted_reddit'[Len(posted_reddit')].post_id
                               \in Range(Ids(unposted))]_vars

\* A news cycle that published from the cache without fetching, after a
\* cycle that had to fetch.
C9_Witness ==
    /\ cyc.post_type = "news"
    /\ ~cyc.fetched
    /\ cyc.success
    /\ Len(news_cache) = 2

\* The score the claim gives a Reddit post, in tenths of a point: the
\* article shape (8 for a boosted subreddit, less 20 for a sensitive title)
\* and the Reddit extras.
ClaimedRedditScore(post) ==
      (IF post.score < 500 THEN post.score ELSE 500)
    + Points(Len(post.selftext) > 50, 200)
    + 50 * Cardinality({word \in engaging_words : Contains(Lower(post.title), word)})
    + Points(Lower(post.subreddit) \in {"paranormal", "ghosts"}, 80)
    - Points(\E keyword \in sensitive_keywords : Contains(Lower(post.title), keyword), 200)

\* C13: the Reddit post a cycle publishes is one the claimed score ranks
\* highest among the unposted posts the cycle chose from.
C13_RedditScore ==
    [][(IsCycle /\ cyc'.post_type = "reddit" /\ cyc'.success) =>
        LET published == posted_reddit'[Len(posted_reddit')].post_id
            candidates == {post \in Range(reddit_cache') :
                              \/ generate_post_id(post) = published
                              \/ post \in Range(get_unposted_reddit_posts(
                                                    reddit_cache', posted_reddit', 0))}
        IN  \A chosen \in candidates, other \in candidates :
                generate_post_id(chosen) = published =>
                    ClaimedRedditScore(other) <= ClaimedRedditScore(chosen)]_vars

\* The titles, and the post ids, of the cached items flagged as posted.
PostedFlagged(articles) == {a.title : a \in {x \in Range(articles) : x.posted}}
PostedFlaggedIds(posts) == {generate_post_id(q) : q \in {x \in Range(posts) : x.posted}}

\* C16: a cycle whose generated content is None (rejected) calls neither
\* smart_post, where every media download and publish request is made, nor
\* mark_as_posted / mark_reddit_post_as_posted; it is not a success, the
\* ever-posted logs keep their entries and no cached item becomes posted.
C16_RejectionEndsCycle ==
    [][(IsCycle /\ cyc'.content = "None") =>
        /\ Range(cyc'.calls) \cap {"smart_post", "mark_as_posted", "mark_reddit_post_as_posted"} = {}
        /\ cyc'.calls[Len(cyc'.calls)] \in {"generate_content_from_news", "generate_content_from_reddit"}
        /\ ~cyc'.success
        /\ posted_articles' = posted_articles
        /\ posted_reddit' = posted_reddit
        /\ PostedFlagged(news_cache') \subseteq PostedFlagged(news_cache)
        /\ PostedFlaggedIds(reddit_cache') \subseteq PostedFlaggedIds(reddit_cache)]_vars

\* A news cycle selected an unposted article and its content was rejected.
C16_Witness ==
    /\ cyc.content = "None"
    /\ cyc.post_type = "news"
    /\ cyc.calls = <<"ensure_articles_available", "select_article_for_posting", "generate_content_from_news">>
    /\ get_cached_articles(news_cache) # <<>>

\* C17: a cycle whose generated content is None (rejected) leaves
\* failed_posts as it was.
C17_RejectionNotCounted ==
    [][(IsCycle /\ cyc'.content = "None") => stats'.failed_posts = stats.failed_posts]_vars

\* Every item cached before and after a step carries the same posted flag.
FlagsKept ==
    /\ \A a \in Range(news_cache), b \in Range(news_cache') :
          a.title = b.title => a.posted = b.posted
    /\ \A a \in Range(reddit_cache), b \in Range(reddit_cache') :
          generate_post_id(a) = generate_post_id(b) => a.posted = b.posted

\* A failing cycle counts itself and touches nothing else that records
\* what was posted.
FailureStatsOnly ==
    /\ FlagsKept
    /\ posted_articles' = posted_articles
    /\ posted_reddit' = posted_reddit
    /\ post_news_next' = post_news_next
    /\ stats' = [stats EXCEPT !.total_posts = @ + 1, !.failed_posts = @ + 1]

\* A successful cycle flags one item of its cache, the one it appends to
\* the ever-posted log of its source, and leaves the other source alone.
SuccessMarksSelected ==
    IF cyc'.post_type = "news"
    THEN /\ Len(posted_articles') = Len(posted_articles) + 1
         /\ SubSeq(posted_articles', 1, Len(posted_articles)) = posted_articles
         /\ LET kept == IF cyc'.fetched THEN {} ELSE PostedFlagged(news_cache)
                 title == posted_articles'[Len(posted_articles')].title
             IN  /\ title \notin kept
                 /\ PostedFlagged(news_cache') = kept \cup {title}
         /\ UNCHANGED <<reddit_cache, posted_reddit>>
    ELSE /\ Len(posted_reddit') = Len(posted_reddit) + 1
         /\ SubSeq(posted_reddit', 1, Len(posted_reddit)) = posted_reddit
         /\ LET post_id == posted_reddit'[Len(posted_reddit')].post_id
             IN  /\ post_id \notin PostedFlaggedIds(reddit_cache)
                 /\ PostedFlaggedIds(reddit_cache') = PostedFlaggedIds(reddit_cache) \cup {post_id}
         /\ UNCHANGED <<news_cache, posted_articles>>

\* C18: a cycle that fails changes the statistics and nothing else: every
\* cached item keeps its posted flag, the ever-posted logs keep their
\* length and post_news_next its value; a cycle that succeeds marks the
\* item it selected and no other.
C18_FailureFrame ==
    [][IsCycle => IF cyc'.success THEN SuccessMarksSelected ELSE FailureStatsOnly]_vars

\* C33: in news_only mode every cycle attempts a news post and in
\* reddit_only mode every cycle attempts a Reddit post, for either value of
\* post_news_next; a cycle run in one of these modes leaves post_news_next
\* as it was, whether it succeeds or fails.
C33_SingleSourceModes ==
    /\ \A news_next \in BOOLEAN :
          /\ PostType("news_only", news_next) = "news"
          /\ PostType("reddit_only", news_next) = "reddit"
          /\ \A mode \in {"news_only", "reddit_only"}, success \in BOOLEAN :
                NextFlag(mode, news_next, success) = news_next
    /\ [][(IsCycle /\ content_mode # "mixed") =>
            /\ cyc'.post_type = IF content_mode = "news_only" THEN "news" ELSE "reddit"
            /\ post_news_next' = post_news_next]_vars

\* A reddit_only run with post_news_next naming news: a Reddit cycle
\* succeeded after one that failed.
C33_Witness ==
    /\ content_mode = "reddit_only"
    /\ post_news_next
    /\ cyc.post_type = "reddit"
    /\ cyc.success
    /\ stats.failed_posts >= 1

\* A news_only run: a news cycle failed after one that succeeded.
C33_NewsWitness ==
    /\ content_mode = "news_only"
    /\ cyc.post_type = "news"
    /\ ~cyc.success
    /\ stats.news_posts >= 1

\* C35: at every point of a run, in whatever mode, total_posts is
\* successful_posts plus failed_posts and successful_posts is news_posts
\* plus reddit_posts; every step that is a create_and_post_content (the
\* steps that leave the mode as it is) adds exactly one to total_posts; and
\* no step lowers a counter.
C35_Statistics ==
    /\ [](/\ stats.total_posts = stats.successful_posts + stats.failed_posts
          /\ stats.news_posts + stats.reddit_posts = stats.successful_posts)
    /\ [][/\ content_mode' = content_mode => stats'.total_posts = stats.total_posts + 1
          /\ \A counter \in DOMAIN stats : stats'[counter] >= stats[counter]]_vars

\* Three cycles of a mixed run: a news post, a Reddit post, a failure.
C35_Witness ==
    /\ content_mode = "mixed"
    /\ stats = [total_posts |-> 3, successful_posts |-> 2, failed_posts |-> 1,
                news_posts |-> 1, reddit_posts |-> 1]

\* C37: when the last cycle selected an item and did not publish it
\* (rejected content, failed publish), the next cycle of the same source
\* does not fetch and selects the same item again; what it publishes, if it
\* publishes, is that item, so no other unposted item of the source is
\* published while the item keeps failing.
C37_FailedItemSelectedAgain ==
    [][(IsCycle /\ cyc.item # None /\ ~cyc.success /\ cyc'.post_type = cyc.post_type) =>
        /\ ~cyc'.fetched
        /\ cyc'.item = cyc.item
        /\ cyc'.success =>
              IF cyc'.post_type = "news"
              THEN posted_articles'[Len(posted_articles')].title = cyc.item.title
              ELSE posted_reddit'[Len(posted_reddit')].post_id = generate_post_id(cyc.item)]_vars

\* Two news cycles failed on the article selected from a cache of two
\* unposted articles, the second without fetching.
C37_Witness ==
    /\ cyc.post_type = "news"
    /\ cyc.item # None
    /\ ~cyc.success
    /\ ~cyc.fetched
    /\ stats.failed_posts = 2
    /\ Len(get_cached_articles(news_cache)) = 2

\* The same for two Reddit cycles.
C37_RedditWitness ==
    /\ cyc.post_type = "reddit"
    /\ cyc.item # None
    /\ ~cyc.success
    /\ ~cyc.fetched
    /\ stats.failed_posts = 2
    /\ Len(get_unposted_reddit_posts(reddit_cache, posted_reddit, 0)) = 2

\* C38: in mixed mode a cycle that follows a failed one attempts the source
\* the failed one attempted, and a failed cycle leaves post_news_next as it
\* was: as long as the cycles of the source post_news_next names fail, no
\* cycle attempts the other source.
C38_FailingSourceStarvesOther ==
    [][(IsCycle /\ content_mode = "mixed") =>
        /\ (cyc # NoCycle /\ ~cyc.success) => cyc'.post_type = cyc.post_type
        /\ ~cyc'.success =>
              /\ post_news_next' = post_news_next
              /\ PostType(content_mode', post_news_next') = cyc'.post_type]_vars

\* After one news post, two Reddit cycles in a row found no Reddit post
\* while an unposted article waits in the news cache.
C38_Witness ==
    /\ content_mode = "mixed"
    /\ stats.news_posts = 1
    /\ stats.failed_posts = 2
    /\ cyc.post_type = "reddit"
    /\ cyc.fetched
    /\ cyc.item = None
    /\ ~post_news_next
    /\ get_cached_articles(news_cache) # <<>>

(***************************************************************************)
(* Claims about start_automation (checked under SpecLoop, SpecLoopFair)    *)
(***************************************************************************)
\* C19: a cycle of the loop that fails, whatever failed in it, leaves
\* start_automation running and adds one to failed_posts; and from every
\* point where the loop stands between cycles after a failed one, the next
\* cycle begins sooner or later, unless Ctrl+C stops the loop first.
C19_LoopSurvivesFailure ==
    /\ [][(IsCycle /\ ~cyc'.success) =>
            /\ loop'.pc \in Running
            /\ stats'.failed_posts = stats.failed_posts + 1]_vars
    /\ (loop.pc \in {"pending", "sleep"} /\ ~cyc.success)
            ~> (loop.pc \in {"job", "stopped"})

\* The cycle after one that failed in smart_post is in progress.
C19_Witness ==
    /\ loop.pc = "job"
    /\ ~cyc.success
    /\ cyc.calls[Len(cyc.calls)] = "smart_post"
    /\ stats.failed_posts = 1

\* C20: never are two create_and_post_content calls in progress; a call
\* begins only when none is in progress; and while a cycle is running past
\* the time the job is due, no other cycle begins.
C20_OneCycleAtATime ==
    [][/\ loop'.in_progress <= 1
       /\ loop'.in_progress > loop.in_progress => loop.in_progress = 0
       /\ (loop.pc \in InCycle /\ loop.due = 0) => loop'.in_progress <= loop.in_progress]_vars

\* The first cycle is still running when the job has become due.
C20_Witness ==
    /\ loop.pc = "first"
    /\ loop.due = 0
    /\ loop.in_progress = 1

\* The cycle that was due during the first one began after it had ended.
C20_DelayedWitness ==
    /\ loop.pc = "job"
    /\ loop.in_progress = 1
    /\ stats.total_posts = 1

\* C32: start_automation stops only between cycles: no step takes it to
\* "stopped" from inside a create_and_post_content call, so a cycle that
\* has begun returns before the stop takes effect.
C32_StopBetweenCycles ==
    [][loop'.pc = "stopped" => loop.pc \notin InCycle]_vars

(***************************************************************************)
(* Claims about the life of an item across cycles (checked under SpecAuto) *)
(***************************************************************************)
\* No two entries of a log carry the same identity.
LoggedOnce(log_ids) ==
    \A i \in 1..Len(log_ids), j \in 1..Len(log_ids) : log_ids[i] = log_ids[j] => i = j

\* C21: across the cycles of a run no article title and no Reddit post id
\* is entered twice in its ever-posted log, and a cached record whose
\* posted flag is true is not cached with the flag false after a step.
C21_PostedExactlyOnce ==
    [][/\ LoggedOnce([i \in 1..Len(posted_articles') |-> posted_articles'[i].title])
       /\ LoggedOnce([i \in 1..Len(posted_reddit') |-> posted_reddit'[i].post_id])
       /\ \A a \in Range(news_cache), b \in Range(news_cache') :
             (a.title = b.title /\ a.posted) => b.posted
       /\ \A a \in Range(reddit_cache), b \in Range(reddit_cache') :
             (generate_post_id(a) = generate_post_id(b) /\ a.posted) => b.posted]_vars

(***************************************************************************)
(* FacebookService.resolve_reddit_video_url                                *)
(***************************************************************************)
\* A video URL, as far as the code looks at it: its host and the file name
\* it ends in ("" for the bare v.redd.it/<id> reference).
VideoUrl(host, name) == [host |-> host, name |-> name]

StartsWith(str, prefix) ==
    Len(str) >= Len(prefix) /\ SubSeq(str, 1, Len(prefix)) = prefix
EndsWith(str, suffix) ==
    Len(str) >= Len(suffix) /\ SubSeq(str, Len(str) - Len(suffix) + 1, Len(str)) = suffix

\* The names resolve_reddit_video_url probes, in its order.
video_formats ==
    << "DASH_720.mp4?source=fallback", "DASH_480.mp4?source=fallback",
       "DASH_360.mp4?source=fallback", "DASH_240.mp4?source=fallback",
       "DASH_720.mp4", "DASH_480.mp4", "DASH_360.mp4", "DASH_240.mp4", "DASH_96.mp4",
       "DASH_1080.mp4", "DASH_720_v2.mp4", "DASH_480_v2.mp4",
       "720.mp4", "480.mp4", "360.mp4", "240.mp4",
       "video.mp4", "video.webm", "video.mov",
       "DASH_audio.mp4", "audio.mp4",
       "HLSPlaylist.m3u8" >>

\* What a HEAD probe can meet: a video content type, an mpegurl content
\* type with more than 1000 bytes, anything else (a miss, a short
\* manifest), or an exception.
ProbeKinds == {"video", "hls", "other", "raise"}

\* The answers of one video's candidates: misses, but for the candidates
\* at[j] (0: none), which answer with kinds[j].
AnswersAt(at, kinds) ==
    [i \in 1..Len(video_formats) |->
        IF \E j \in DOMAIN at : at[j] = i
        THEN kinds[CHOOSE j \in DOMAIN at : at[j] = i]
        ELSE "other"]

\* The candidates that answer, in the order of the list and without gaps.
InOrder(at) == \A j \in DOMAIN at : j > 1 /\ at[j] # 0 => at[j - 1] # 0 /\ at[j - 1] < at[j]

NoAnswers == [i \in 1..Len(video_formats) |-> "other"]

\* The loop over video_formats from candidate i on: the first candidate
\* with a video content type is returned at once; an mpegurl answer is kept
\* as hls_backup (0: none yet) and returned when the list is exhausted.
RECURSIVE ResolveLoop(_, _, _, _)
ResolveLoop(reddit_url, answers, i, hls_backup) ==
    IF i > Len(video_formats)
    THEN [url |-> IF hls_backup # 0
                  THEN VideoUrl(reddit_url.host, video_formats[hls_backup])
                  ELSE reddit_url,
          probed |-> Len(video_formats)]
    ELSE IF answers[i] = "video"
    THEN [url |-> VideoUrl(reddit_url.host, video_formats[i]), probed |-> i]
    ELSE ResolveLoop(reddit_url, answers, i + 1,
                     IF answers[i] = "hls" THEN i ELSE hls_backup)

\* Whether resolve_reddit_video_url probes at all: only a v.redd.it URL
\* that names no DASH_ file and does not end in .mp4.
Probes(reddit_url) ==
    /\ reddit_url.host = "v.redd.it"
    /\ ~StartsWith(reddit_url.name, "DASH_")
    /\ ~EndsWith(reddit_url.name, ".mp4")

\* A resolver that takes the manifest as soon as it answers (mutation of
\* resolve_reddit_video_url).
resolve_first_answer(reddit_url, answers) ==
    IF Probes(reddit_url)
    THEN LET hits == {i \in 1..Len(video_formats) : answers[i] \in {"video", "hls"}}
         IN  IF hits = {} THEN [url |-> reddit_url, probed |-> Len(video_formats)]
             ELSE LET first == CHOOSE i \in hits : \A j \in hits : i <= j
                  IN  [url |-> VideoUrl(reddit_url.host, video_formats[first]), probed |-> first]
    ELSE [url |-> reddit_url, probed |-> 0]

\* resolve_reddit_video_url: the URL it returns and how many candidates
\* it probed.
resolve_reddit_video_url(reddit_url, answers) ==
    IF Probes(reddit_url)
    THEN ResolveLoop(reddit_url, answers, 1, 0)
    ELSE [url |-> reddit_url, probed |-> 0]

\* The video URLs handed in: the bare Reddit reference, two that already
\* name a DASH file, a manifest, and a file on another host.
VideoUrls ==
    { VideoUrl("v.redd.it", ""),
      VideoUrl("v.redd.it", "DASH_720.mp4"),
      VideoUrl("v.redd.it", "DASH_480.mp4?source=fallback"),
      VideoUrl("example.com", "HLSPlaylist.m3u8"),
      VideoUrl("example.com", "clip.mp4") }

InitResolve ==
    /\ CacheFresh
    /\ SelIdle
    /\ PostIdle
    /\ AutoFresh
    /\ StoreIdle

ResolveRedditVideoUrl ==
    /\ dl = Idle
    /\ \E reddit_url \in VideoUrls :
          \E at \in [1..MaxMatches -> 0..Len(video_formats)],
             kinds \in [1..MaxMatches -> ProbeKinds \ {"other"}] :
              /\ InOrder(at)
              /\ Probes(reddit_url) \/ \A j \in DOMAIN at : at[j] = 0
              /\ dl' = [fn |-> "resolve_reddit_video_url", reddit_url |-> reddit_url,
                        answers |-> AnswersAt(at, kinds),
                        ret |-> resolve_reddit_video_url(reddit_url, AnswersAt(at, kinds))]
    /\ UNCHANGED <<fb, text_req, outsidePost>>

DownloadDone ==
    /\ dl # Idle
    /\ dl' = Idle
    /\ UNCHANGED <<fb, text_req, outsidePost>>

NextResolve ==
    \/ ResolveRedditVideoUrl
    \/ DownloadDone

SpecResolve == InitResolve /\ [][NextResolve]_vars

(***************************************************************************)
(* FacebookService.download_video, download_image and                      *)
(* TwitterAPI.download_media                                               *)
(***************************************************************************)
\* Byte-size caps, in MB.
VideoCapMB == 100
ImageCapMB == 10
TwitterVideoCapMB == 512
TwitterImageCapMB == 5

\* Sizes in MB on either side of each cap.
Sizes == {1, 6, 11, 101, 513}

\* A GET response that is not an error: its content type, the
\* content-length it reports (0: no such header) and the bytes it carries.
Response(content_type, content_length, size) == [content_type |-> content_type, content_length |-> content_length, size |-> size]
Bodies(content_type) ==
    {Response(content_type, n, n) : n \in Sizes} \cup {Response(content_type, 0, n) : n \in Sizes}

\* What a download call did: the steps it took, the GET responses it
\* read, the files it left on the disk, and the file it returned.
File(name, size) == [name |-> name, size |-> size]
Done(log, gets, files, ret) == [log |-> log, gets |-> gets, files |-> files, ret |-> ret]
Get(what, response) == [what |-> what, content_type |-> response.content_type, content_length |-> response.content_length]

\* "S, and when it returned None, T": the steps, responses and files add up.
OrThen(S, T) ==
    {o \in S : o.ret # "None"} \cup
    {Done(o.log \o t.log, o.gets \o t.gets, o.files \cup t.files, t.ret) :
        o \in {x \in S : x.ret = "None"}, t \in T}

\* download_video_with_yt_dlp: the file yt-dlp wrote, or None.
download_video_with_yt_dlp ==
    {Done(<<"yt_dlp">>, <<>>, {}, "None")} \cup
    {Done(<<"yt_dlp">>, <<>>, {File("reddit_video_audio", n)}, "reddit_video_audio") : n \in {1, 101}}

\* combine_video_audio_with_ffmpeg: the HEAD probes find a video stream or
\* none, an audio stream or none; each stream found is fetched whole into a
\* file; ffmpeg joins the two.
ffmpeg_results == {"ok", "no output", "failed", "timeout", "not found"}

Mux(v, ffmpeg) ==
    LET video == File("reddit_video_temp", v.size)
        audio == File("reddit_audio_temp", 1)
        gets == <<Get("video stream", v), Get("audio stream", Response("audio/mp4", 1, 1))>>
    IN  CASE ffmpeg = "ok" ->
                Done(<<"mux">>, gets, {File("reddit_video_with_audio", v.size)}, "reddit_video_with_audio")
          [] ffmpeg = "no output" -> Done(<<"mux">>, gets, {}, "None")
          [] ffmpeg = "timeout" -> Done(<<"mux">>, gets, {video, audio}, video.name)
          [] OTHER -> Done(<<"mux">>, gets, {video}, video.name)

MuxBodies == {Response("video/mp4", n, n) : n \in {1, 101}}

combine_video_audio_with_ffmpeg ==
    {Done(<<"mux">>, <<>>, {}, "None")}
    \cup {Done(<<"mux">>, <<Get("video stream", v)>>, {File("reddit_video_only", v.size)}, "reddit_video_only") : v \in MuxBodies}
    \cup {Done(<<"mux">>, <<Get("video stream", v)>>, {File("reddit_video_temp", v.size)}, "None") : v \in MuxBodies}
    \cup {Mux(v, ffmpeg) : v \in MuxBodies, ffmpeg \in ffmpeg_results}

\* The GET of the video URL itself and what follows it.
Raise == Response("raise", 0, 0)
DirectResponses ==
    {Raise, Response("text/html", 0, 1), Response("application/x-mpegurl", 0, 1)}
    \cup Bodies("video/mp4")

\* The standard download: a failed request, a manifest (handed to yt-dlp),
\* a content type that is no video, a content-length over 100 MB (None, no
\* file), or the body streamed into a file.
direct_download(response) ==
    CASE response = Raise -> {Done(<<"direct">>, <<>>, {}, "None")}
      [] response.content_type = "application/x-mpegurl" ->
            OrThen({Done(<<"direct">>, <<Get("direct", response)>>, {}, "None")}, download_video_with_yt_dlp)
      [] response.content_type # "video/mp4" ->
            {Done(<<"direct">>, <<Get("direct", response)>>, {}, "None")}
      [] response.content_length > VideoCapMB ->
            {Done(<<"direct">>, <<Get("direct", response)>>, {}, "None")}
      [] OTHER ->
            {Done(<<"direct">>, <<Get("direct", response)>>, {File("reddit_video", response.size)}, "reddit_video")}

\* download_video from the point where video_url is settled.
fetch_video(video_url) ==
    IF EndsWith(video_url.name, ".m3u8")
    THEN download_video_with_yt_dlp
    ELSE UNION {direct_download(response) : response \in DirectResponses}

\* The answers the candidates give while download_video resolves: none,
\* DASH_720.mp4 alone, the manifest alone.
DownloadProbeAnswers ==
    { NoAnswers,
      [NoAnswers EXCEPT ![5] = "video"],
      [NoAnswers EXCEPT ![Len(video_formats)] = "hls"] }

\* The fallback of a Reddit video once the combination returned None: an
\* unresolved URL ends the call.
resolve_and_fetch(video_url, answers) ==
    LET resolved_url == resolve_reddit_video_url(video_url, answers).url
    IN  IF resolved_url # video_url
        THEN OrThen({Done(<<"resolve">>, <<>>, {}, "None")}, fetch_video(resolved_url))
        ELSE {Done(<<"resolve">>, <<>>, {}, "None")}

\* download_video: for a v.redd.it URL the ffmpeg combination first, then
\* resolution and the standard download; for any other URL the standard
\* download at once.
download_video(video_url, answers) ==
    IF video_url.host = "v.redd.it"
    THEN OrThen(combine_video_audio_with_ffmpeg, resolve_and_fetch(video_url, answers))
    ELSE fetch_video(video_url)

\* The image URLs handed in: a direct image, a gallery page, a redd.it
\* link without an image extension, a comments page.
ImageUrl(host, name) == [host |-> host, name |-> name]
ImageUrls ==
    { ImageUrl("i.redd.it", "a.jpg"),
      ImageUrl("reddit.com/gallery/", "abc"),
      ImageUrl("v.redd.it", "abc"),
      ImageUrl("reddit.com/comments/", "abc") }

image_extensions == {".jpg", ".jpeg", ".png", ".gif", ".webp"}

\* download_image skips pages that hold no image of their own.
SkippedImageUrl(image_url) ==
    \/ image_url.host = "reddit.com/gallery/"
    \/ /\ image_url.host \in {"i.redd.it", "v.redd.it"}
       /\ ~\E ext \in image_extensions : EndsWith(image_url.name, ext)
    \/ image_url.host \in {"reddit.com/r/", "reddit.com/user/", "reddit.com/comments/"}

\* The body is read whole, so the length checked is the length received.
ImageResponses ==
    {Raise, Response("text/html", 1, 1), Response("image/jpeg", 0, 0)}
    \cup {Response("image/jpeg", n, n) : n \in Sizes}

download_image(image_url, response) ==
    IF SkippedImageUrl(image_url) THEN Done(<<>>, <<>>, {}, "None")
    ELSE CASE response = Raise -> Done(<<"get">>, <<>>, {}, "None")
           [] response.content_type # "image/jpeg" -> Done(<<"get">>, <<Get("image", response)>>, {}, "None")
           [] response.size = 0 -> Done(<<"get">>, <<Get("image", response)>>, {}, "None")
           [] response.size > ImageCapMB -> Done(<<"get">>, <<Get("image", response)>>, {}, "None")
           [] OTHER -> Done(<<"get">>, <<Get("image", response)>>, {File("reddit_image", response.size)}, "reddit_image")

\* TwitterAPI.download_media: one streamed GET; the cap depends on the
\* content type.
MediaResponses ==
    {Raise, Response("text/html", 1, 1)} \cup Bodies("video/mp4") \cup Bodies("image/jpeg")

download_media(response) ==
    CASE response = Raise -> Done(<<"get">>, <<>>, {}, "None")
      [] response.content_type \notin {"video/mp4", "image/jpeg"} ->
            Done(<<"get">>, <<Get("media", response)>>, {}, "None")
      [] response.content_length > (IF response.content_type = "video/mp4" THEN TwitterVideoCapMB ELSE TwitterImageCapMB) ->
            Done(<<"get">>, <<Get("media", response)>>, {}, "None")
      [] OTHER ->
            LET name == IF response.content_type = "video/mp4" THEN "twitter_video" ELSE "twitter_image"
            IN  Done(<<"get">>, <<Get("media", response)>>, {File(name, response.size)}, name)

InitDownload ==
    /\ CacheFresh
    /\ SelIdle
    /\ PostIdle
    /\ AutoFresh
    /\ StoreIdle

DownloadVideo ==
    /\ dl = Idle
    /\ \E video_url \in VideoUrls :
          \E answers \in IF Probes(video_url) THEN DownloadProbeAnswers ELSE {NoAnswers} :
              \E r \in download_video(video_url, answers) :
                  dl' = [fn |-> "download_video", url |-> video_url, answers |-> answers,
                         call |-> r]
    /\ UNCHANGED <<fb, text_req, outsidePost>>

DownloadImage ==
    /\ dl = Idle
    /\ \E image_url \in ImageUrls :
          \E response \in (IF SkippedImageUrl(image_url) THEN {Raise} ELSE ImageResponses) :
              dl' = [fn |-> "download_image", url |-> image_url,
                     call |-> download_image(image_url, response)]
    /\ UNCHANGED <<fb, text_req, outsidePost>>

DownloadMedia ==
    /\ dl = Idle
    /\ \E media_url \in ImageUrls \cup VideoUrls, response \in MediaResponses :
          dl' = [fn |-> "download_media", url |-> media_url, call |-> download_media(response)]
    /\ UNCHANGED <<fb, text_req, outsidePost>>

NextDownload ==
    \/ DownloadVideo
    \/ DownloadImage
    \/ DownloadMedia
    \/ DownloadDone

SpecDownload == InitDownload /\ [][NextDownload]_vars

\* The cap each function holds a response to.
Cap(fn, content_type) ==
    CASE fn = "download_video" -> VideoCapMB
      [] fn = "download_image" -> ImageCapMB
      [] OTHER -> IF content_type = "video/mp4" THEN TwitterVideoCapMB ELSE TwitterImageCapMB

\* C23: a download call that read a response reporting a content-length
\* above the cap of its function returns None and leaves no file on the
\* disk.
C23_OverCapRejected ==
    (dl # Idle /\ dl.fn \in {"download_video", "download_image", "download_media"}) =>
        \A k \in 1..Len(dl.call.gets) :
            dl.call.gets[k].content_length > Cap(dl.fn, dl.call.gets[k].content_type) =>
                /\ dl.call.ret = "None"
                /\ dl.call.files = {}

\* The cap a file on the disk is held to: that of the function that wrote
\* it, for TwitterAPI.download_media by the kind of the file.
FileCap(fn, file) ==
    Cap(fn, IF file.name = "twitter_image" THEN "image/jpeg" ELSE "video/mp4")

\* C31: no download call leaves a file on the disk that is larger than the
\* cap of its function, whichever path wrote it (the standard download, the
\* video and audio streams of the ffmpeg combination, yt-dlp) and whether
\* or not the response reported a content-length.
C31_NoFileOverCap ==
    (dl # Idle /\ dl.fn \in {"download_video", "download_image", "download_media"}) =>
        \A file \in dl.call.files : file.size <= FileCap(dl.fn, file)

(***************************************************************************)
(* The cache files on the disk: one partition (the news files or the       *)
(* Reddit files) with its pending list and its ever-posted log             *)
(***************************************************************************)
\* A file holding a JSON list.
ListFile(data) == [state |-> "list", data |-> data]

\* A file that is not there, has no bytes, cannot be opened, holds no JSON
\* or holds the JSON value null.
Damages == {"missing", "empty", "unreadable", "not json", "null"}

DamagedFile(state) == [state |-> state, data |-> <<>>]

\* What a call hands back: a list, the value None, or an exception.
Returns(value) == [raised |-> "", is_list |-> TRUE, value |-> value]

ReturnsNone == [raised |-> "", is_list |-> FALSE, value |-> <<>>]

Throws(exception) == [raised |-> exception, is_list |-> FALSE, value |-> <<>>]

\* with open(file_path, 'r', encoding='utf-8') as f: json.load(f)
open_and_load(file) ==
    CASE file.state = "list" -> Returns(file.data)
      [] file.state = "missing" -> Throws("FileNotFoundError")
      [] file.state = "unreadable" -> Throws("PermissionError")
      [] file.state \in {"empty", "not json"} -> Throws("JSONDecodeError")
      [] file.state = "null" -> ReturnsNone

\* RedditCacheManager._load_json: FileNotFoundError and JSONDecodeError are
\* the two exceptions it turns into [].
load_json(file) ==
    LET r == open_and_load(file)
    IN  IF r.raised \in {"FileNotFoundError", "JSONDecodeError"} THEN Returns(<<>>) ELSE r

\* _save_json and _save_cache, on a disk that takes every write and every
\* removal.
save_json(file, data) == ListFile(data)

\* get_unposted_reddit_posts() on the two files: the loads in the order of
\* the code, then the two comprehensions, which iterate over what was loaded.
get_unposted_reddit_posts_of(reddit_cache_file, posted_reddit_file) ==
    LET cached_posts == load_json(reddit_cache_file)
        posted_posts == load_json(posted_reddit_file)
    IN  IF cached_posts.raised # "" THEN cached_posts
        ELSE IF posted_posts.raised # "" THEN posted_posts
        ELSE IF ~posted_posts.is_list \/ ~cached_posts.is_list THEN Throws("TypeError")
        ELSE Returns(get_unposted_reddit_posts(cached_posts.value, posted_posts.value, 0))

\* get_cached_articles() on the file: every exception ends in "return []".
get_cached_articles_of(cache_file) ==
    LET articles == open_and_load(cache_file)
    IN  IF articles.raised = "" /\ articles.is_list
        THEN Returns(get_cached_articles(articles.value))
        ELSE Returns(<<>>)

\* reset_reddit_cache: [] is saved to both files.
reset_reddit_cache(reddit_cache_file, posted_reddit_file) ==
    [cache_file |-> save_json(reddit_cache_file, <<>>),
     posted_file |-> save_json(posted_reddit_file, <<>>)]

\* os.path.exists(file)
Exists(file) == file.state # "missing"

\* NewsFetcher.reset_cache: both files are removed if they are there.
reset_cache(cache_file, posted_file) ==
    [cache_file |-> IF Exists(cache_file) THEN DamagedFile("missing") ELSE cache_file,
     posted_file |-> IF Exists(posted_file) THEN DamagedFile("missing") ELSE posted_file]

\* _log_posted_article: a missing log starts as []; any other exception is
\* printed and nothing is logged.
log_posted_article(posted_file, article) ==
    LET loaded == open_and_load(posted_file)
        entries == IF loaded.raised = "FileNotFoundError" THEN Returns(<<>>) ELSE loaded
    IN  IF entries.raised # "" \/ ~entries.is_list THEN posted_file
        ELSE save_json(posted_file, Append(entries.value, [title |-> article.title]))

\* mark_as_posted on the files: an exception while the cache is read or
\* flagged ends the call before the log is written.
mark_as_posted_of(cache_file, posted_file, article) ==
    LET articles == open_and_load(cache_file)
    IN  IF articles.raised # "" \/ ~articles.is_list
        THEN [cache_file |-> cache_file, posted_file |-> posted_file]
        ELSE [cache_file |-> save_json(cache_file, FlagFirstTitle(articles.value, article.title)),
              posted_file |-> log_posted_article(posted_file, article)]

\* fetch_bulk_news on the file: the articles without duplicates are saved.
fetch_bulk_news_of(cache_file, results) == save_json(cache_file, fetch_bulk_news(results))

\* The Reddit files as the cache API leaves them: as __init__ writes them,
\* after cache_reddit_posts has stored two posts, and after one of the two
\* has been marked as posted.
RedditStores ==
    LET stored == cache_reddit_posts(<<>>, <<>>,
                      <<RedditPost(1, "murder house", 2, "Paranormal", ""),
                        RedditPost(NoId, "a", 1, "Paranormal", "")>>, 0).cache
        after_mark == mark_reddit_post_as_posted(stored, <<>>,
                          RedditPost(1, "murder house", 2, "Paranormal", ""))
    IN  { [cache |-> <<>>, posted |-> <<>>],
          [cache |-> stored, posted |-> <<>>],
          [cache |-> after_mark.cache, posted |-> after_mark.posted] }

NoStoreCall == [op |-> "none"]

\* What the news API returns to one fetch_bulk_news: the short batches, and
\* a batch of three articles of which two share a title but for its case.
StoreBatches ==
    SeqsUpTo(NewsArticles, MaxFetch)
        \cup { << Article(<<"Ghost", "seen", "in", "old", "fort">>, ShortDescription, "http://img/1.jpg", "", <<>>),
                  Article(<<"lights", "over", "hills">>, LongDescription, "", "2024-05-01 10:00:00", <<"top">>),
                  Article(<<"ghost", "seen", "in", "old", "fort">>, "", "", "", <<>>) >> }

\* The partition the calls are made on: the news files, which no
\* constructor writes, or the Reddit files.
InitStore ==
    /\ CacheFresh
    /\ SelIdle
    /\ PostIdle
    /\ AutoFresh
    /\ \/ store = [partition |-> "news", cache_file |-> DamagedFile("missing"),
                   posted_file |-> DamagedFile("missing"), call |-> NoStoreCall]
       \/ \E files \in RedditStores :
             store = [partition |-> "reddit", cache_file |-> ListFile(files.cache),
                      posted_file |-> ListFile(files.posted), call |-> NoStoreCall]

outsideStore == <<cacheVars, selVars, postVars, autoVars>>

\* Something other than the program deletes, truncates, locks or overwrites
\* one of the two files.
Damage ==
    /\ \E state \in Damages :
          \/ store' = [store EXCEPT !.cache_file = DamagedFile(state), !.call = [op |-> "damage"]]
          \/ store' = [store EXCEPT !.posted_file = DamagedFile(state), !.call = [op |-> "damage"]]
    /\ UNCHANGED outsideStore

GetUnpostedFromFiles ==
    /\ store.partition = "reddit"
    /\ store' = [store EXCEPT !.call =
                    [op |-> "get_unposted_reddit_posts",
                     ret |-> get_unposted_reddit_posts_of(store.cache_file, store.posted_file)]]
    /\ UNCHANGED outsideStore

ResetRedditFiles ==
    /\ store.partition = "reddit"
    /\ LET r == reset_reddit_cache(store.cache_file, store.posted_file)
       IN  store' = [store EXCEPT !.cache_file = r.cache_file, !.posted_file = r.posted_file,
                                     !.call = [op |-> "reset_reddit_cache"]]
    /\ UNCHANGED outsideStore

GetCachedArticles ==
    /\ store.partition = "news"
    /\ store' = [store EXCEPT !.call =
                    [op |-> "get_cached_articles",
                     ret |-> get_cached_articles_of(store.cache_file)]]
    /\ UNCHANGED outsideStore

FetchBulkNews ==
    /\ store.partition = "news"
    /\ \E results \in StoreBatches :
          store' = [store EXCEPT !.cache_file = fetch_bulk_news_of(@, results),
                                 !.call = [op |-> "fetch_bulk_news", results |-> results]]
    /\ UNCHANGED outsideStore

\* mark_as_posted(article) for an article the caller got from the cache.
MarkAsPosted ==
    /\ store.partition = "news"
    /\ store.posted_file.state = "list" => Len(store.posted_file.data) < MaxPostedLog
    /\ \E article \in Range(get_cached_articles_of(store.cache_file).value) :
          LET r == mark_as_posted_of(store.cache_file, store.posted_file, article)
          IN  store' = [store EXCEPT !.cache_file = r.cache_file, !.posted_file = r.posted_file,
                                     !.call = [op |-> "mark_as_posted", article |-> article]]
    /\ UNCHANGED outsideStore

\* NewsAutomationService.reset_cache, which is NewsFetcher.reset_cache and
\* the loss of the preferences.
ResetCache ==
    /\ store.partition = "news"
    /\ LET r == reset_cache(store.cache_file, store.posted_file)
       IN  store' = [store EXCEPT !.cache_file = r.cache_file, !.posted_file = r.posted_file,
                                     !.call = [op |-> "reset_cache"]]
    /\ UNCHANGED outsideStore

\* A reset of either partition.
Reset == ResetRedditFiles \/ ResetCache

NextStore ==
    \/ Damage
    \/ GetUnpostedFromFiles
    \/ ResetRedditFiles
    \/ GetCachedArticles
    \/ FetchBulkNews
    \/ MarkAsPosted
    \/ ResetCache

SpecStore == InitStore /\ [][NextStore]_vars

(***************************************************************************)
(* Claims about the cache files (checked under SpecStore)                  *)
(***************************************************************************)
\* The places of a list whose article has the key.
WithKey(articles, key) == {i \in 1..Len(articles) : simple_title(articles[i]) = key}

\* The first article of the list with the key, as fetch_bulk_news stores it.
FirstWithKey(articles, key) ==
    Unposted(articles[CHOOSE i \in WithKey(articles, key) : \A k \in WithKey(articles, key) : i <= k])

\* The keys of the batch that _remove_duplicates lets through.
LongKeys(articles) ==
    {key \in {simple_title(articles[i]) : i \in 1..Len(articles)} : JoinLen(key) > 10}

\* The cache file holds one record for each of the keys, the first article
\* of the batch with the key, and no other record.
OneRecordPerKey(file, results, keys) ==
    /\ file.state = "list"
    /\ \A key \in keys :
          \E j \in 1..Len(file.data) :
              /\ WithKey(file.data, key) = {j}
              /\ file.data[j] = FirstWithKey(results, key)
    /\ \A j \in 1..Len(file.data) : simple_title(file.data[j]) \in keys

\* C24 as the code has it: once fetch_bulk_news has stored a batch, the
\* news cache holds exactly one record for each identity key of the batch
\* that is longer than 10 characters, the first article with the key, and
\* nothing else; a get_cached_articles that follows returns these records;
\* and a mark_as_posted of a cached unposted article leaves one unposted
\* article less.
C24_OnePerKey ==
    [][/\ store'.call.op = "fetch_bulk_news" =>
              OneRecordPerKey(store'.cache_file, store'.call.results,
                              LongKeys(store'.call.results))
       /\ (store.call.op = "fetch_bulk_news" /\ store'.call.op = "get_cached_articles") =>
              store'.call.ret = Returns(store.cache_file.data)
       /\ store'.call.op = "mark_as_posted" =>
              Len(get_cached_articles(store'.cache_file.data))
                  = Len(get_cached_articles(store.cache_file.data)) - 1]_vars

\* A batch of three articles, two of them with one key, was stored as two
\* records, the first article of each key.
C24_Witness ==
    /\ store # Idle
    /\ store.call.op = "fetch_bulk_news"
    /\ Len(store.call.results) = 3
    /\ Len(store.cache_file.data) = 2
    /\ store.cache_file.data[1] = Unposted(store.call.results[1])
    /\ store.cache_file.data[2] = Unposted(store.call.results[2])
    /\ simple_title(store.call.results[3]) = simple_title(store.call.results[1])

\* One of two cached articles was marked: one is left unposted.
C24_MarkedWitness ==
    /\ store # Idle
    /\ store.call.op = "mark_as_posted"
    /\ Len(store.cache_file.data) = 2
    /\ Len(get_cached_articles(store.cache_file.data)) = 1

\* C24: after a fetched news batch is stored, the news cache holds exactly
\* one record per distinct identity key occurring in the batch (the first
\* words of the lowercased title), the first occurrence of each.
C24_OnePerKeyOfBatch ==
    (store # Idle /\ store.call.op = "fetch_bulk_news") =>
        OneRecordPerKey(store.cache_file, store.call.results,
                        {simple_title(store.call.results[i]) : i \in 1..Len(store.call.results)})

\* C25: get_unposted_reddit_posts and get_cached_articles never raise: they
\* return a list, and the empty list when the file of the pending items is
\* missing, empty, unreadable or corrupt.
C25_ReadsNeverFail ==
    (store # Idle /\ store.call.op \in {"get_unposted_reddit_posts", "get_cached_articles"}) =>
        /\ store.call.ret.raised = ""
        /\ store.call.ret.is_list
        /\ store.cache_file.state # "list" => store.call.ret.value = <<>>

\* The records a partition holds as pending, and as ever posted.
Records(file) == IF file.state = "list" THEN file.data ELSE <<>>

\* C26: clearing the pending items and clearing the ever-posted log are
\* separate choices: wherever both are non-empty, a reset can be made that
\* leaves no pending item and keeps the ever-posted log as it is.
C26_ResetKeepsLog ==
    (store # Idle /\ Records(store.cache_file) # <<>> /\ Records(store.posted_file) # <<>>) =>
        ENABLED (/\ Reset
                 /\ Records(store'.cache_file) = <<>>
                 /\ store'.posted_file = store.posted_file)

\* A download_video call for a v.redd.it URL.
RedditVideoCall == dl # Idle /\ dl.fn = "download_video" /\ dl.url.host = "v.redd.it"

\* C28: for a v.redd.it reference download_video first attempts URL
\* resolution and a direct progressive download, and attempts the separate
\* video and audio download and mux only after the resolution, when it
\* yielded only a manifest or the direct download failed.
C28_ResolveFirst ==
    RedditVideoCall =>
        /\ dl.call.log[1] = "resolve"
        /\ \A k \in 1..Len(dl.call.log) :
              dl.call.log[k] = "mux" =>
                  /\ \E j \in 1..(k - 1) : dl.call.log[j] = "resolve"
                  /\ \/ EndsWith(resolve_reddit_video_url(dl.url, dl.answers).url.name, ".m3u8")
                     \/ \E j \in 1..(k - 1) : dl.call.log[j] = "direct"

\* A URL that names a progressive file.
Progressive(url) == Contains(url.name, ".mp4")

\* The URL the reference resolves to.
ResolvedUrl == resolve_reddit_video_url(dl.url, dl.answers).url

\* C29: a download_video call whose reference is, or resolves to, the URL
\* of a progressive file (a v.redd.it URL that already names a DASH_*.mp4
\* file included) does not return None without having attempted the direct
\* download.
C29_DirectBeforeNone ==
    (dl # Idle /\ dl.fn = "download_video" /\ dl.call.ret = "None"
        /\ (Progressive(dl.url) \/ Progressive(ResolvedUrl))) =>
            \E k \in 1..Len(dl.call.log) : dl.call.log[k] = "direct"

(***************************************************************************)
(* Claims about resolve_reddit_video_url (checked under SpecResolve)       *)
(***************************************************************************)
\* A resolve call that probed, and the places of the candidates it probed.
Resolving == dl # Idle /\ dl.fn = "resolve_reddit_video_url" /\ dl.ret.probed > 0

Probed == 1..dl.ret.probed

Candidates == 1..Len(video_formats)

\* The number a candidate name carries (its first run of digits), and the
\* name with that number left out.
IsDigit(c) == c \in {"0", "1", "2", "3", "4", "5", "6", "7", "8", "9"}

DigitValue(c) ==
    CASE c = "0" -> 0 [] c = "1" -> 1 [] c = "2" -> 2 [] c = "3" -> 3 [] c = "4" -> 4
      [] c = "5" -> 5 [] c = "6" -> 6 [] c = "7" -> 7 [] c = "8" -> 8 [] c = "9" -> 9

DigitPlaces(name) == {i \in 1..Len(name) : IsDigit(SubSeq(name, i, i))}

NumberStart(name) == CHOOSE i \in DigitPlaces(name) : \A j \in DigitPlaces(name) : i <= j

NumberEnd(name) ==
    CHOOSE i \in NumberStart(name)..Len(name) :
        /\ \A j \in NumberStart(name)..i : j \in DigitPlaces(name)
        /\ (i + 1) \notin DigitPlaces(name)

RECURSIVE NumberOf(_, _, _)
NumberOf(name, i, last) ==
    IF i > last THEN 0
    ELSE DigitValue(SubSeq(name, last, last)) + 10 * NumberOf(name, i, last - 1)

Quality(name) ==
    IF DigitPlaces(name) = {} THEN 0 ELSE NumberOf(name, NumberStart(name), NumberEnd(name))

Convention(name) ==
    IF DigitPlaces(name) = {} THEN name
    ELSE SubSeq(name, 1, NumberStart(name) - 1) \o "#"
             \o SubSeq(name, NumberEnd(name) + 1, Len(name))

Fallback(name) == EndsWith(name, "?source=fallback")

\* The number and the name without it, for each candidate of the list.
Qualities == [i \in Candidates |-> Quality(video_formats[i])]

Conventions == [i \in Candidates |-> Convention(video_formats[i])]

\* Candidate j is the same name as candidate i with a higher number.
HigherVariant(j, i) == Conventions[j] = Conventions[i] /\ Qualities[j] > Qualities[i]

\* The places of the fallback names, of the manifest and of DASH_1080.mp4.
Fallbacks == {i \in Candidates : Fallback(video_formats[i])}

Manifests == {i \in Candidates : video_formats[i] = "HLSPlaylist.m3u8"}

Dash1080 == {i \in Candidates : video_formats[i] = "DASH_1080.mp4"}

\* The candidates that answered with a video content type.
Videos == {i \in Candidates : dl.answers[i] = "video"}

\* The call probed the candidates in the order of the list up to the last
\* one it probed: a primary name only after every fallback name, the
\* manifest only after every other name; it returned the first candidate
\* that answered with a video content type, probing none after it; and it
\* returned a candidate that answered as a manifest only when no candidate
\* answered with a video content type.
FirstVideoElseManifest ==
    /\ \A i \in Probed :
          /\ i \notin Fallbacks => \A j \in Fallbacks : j < i
          /\ i \in Manifests => \A j \in Candidates \ {i} : j < i
    /\ Videos # {} =>
          \E i \in Videos :
              /\ \A j \in Videos : i <= j
              /\ dl.ret = [url |-> VideoUrl(dl.reddit_url.host, video_formats[i]), probed |-> i]
    /\ Videos = {} =>
          /\ dl.ret.probed = Len(video_formats)
          /\ \/ dl.ret.url = dl.reddit_url
             \/ \E i \in Candidates :
                   /\ dl.answers[i] = "hls"
                   /\ dl.ret.url = VideoUrl(dl.reddit_url.host, video_formats[i])
    /\ (\E i \in Candidates : dl.answers[i] = "hls" /\ dl.ret.url = VideoUrl(dl.reddit_url.host, video_formats[i])) =>
          Videos = {}

\* C30 as the code has it: resolve_reddit_video_url probes the candidate
\* names in a fixed order in which the fallback names come before the
\* primary ones, the numbers of one name go from high to low but for
\* DASH_1080.mp4, which is probed after DASH_96.mp4, and the HLS manifest
\* is last; it returns the first candidate that answers with a video
\* content type, and a manifest only when no candidate did.
C30_ProbeOrder ==
    Resolving =>
        /\ FirstVideoElseManifest
        /\ \A i \in Probed : \A j \in Candidates : HigherVariant(j, i) => j < i \/ j \in Dash1080

\* A candidate answered as a manifest, a later one with a video content
\* type: the later one was returned.
C30_Witness ==
    /\ Resolving
    /\ \E i \in Candidates :
          /\ dl.answers[i] = "hls"
          /\ \E j \in Videos : i < j /\ dl.ret.url = VideoUrl(dl.reddit_url.host, video_formats[j])

\* Only the manifest answered, after every other name was probed: it was
\* returned.
C30_ManifestWitness ==
    /\ Resolving
    /\ Videos = {}
    /\ dl.ret.probed = Len(video_formats)
    /\ dl.answers[Len(video_formats)] = "hls"
    /\ dl.ret.url = VideoUrl(dl.reddit_url.host, "HLSPlaylist.m3u8")

\* C30: resolve_reddit_video_url probes the candidate names in a fixed
\* order in which fallback variants come before primary ones, quality
\* variants go from high to low and the HLS manifest is last; it returns
\* the first probe that answers with a video content type, and the HLS
\* manifest only when no direct candidate matched.
C30_HighToLow ==
    Resolving =>
        /\ FirstVideoElseManifest
        /\ \A i \in Probed : \A j \in Candidates : HigherVariant(j, i) => j < i

(***************************************************************************)
(* RedditCacheManager.select_best_reddit_post on caches of more than 20    *)
(* posts                                                                   *)
(***************************************************************************)
MaxCached == 22      \* most posts in the cache select_best_reddit_post is run on

\* The sizes of the caches: around none and around the 20 candidates.
CacheSizes == (0..2) \cup (19..MaxCached)

\* A cache of n posts as cache_reddit_posts leaves it, sorted by score:
\* the scores fall from post to post or are all the same; one post (if
\* any) has an engaging title and a long selftext, one (if any) is posted.
BestCache(n, engaging, flagged, flat) ==
    [i \in 1..n |->
        [StoredPost(RedditPost(i, IF i = engaging THEN "help" ELSE "a",
                               IF flat THEN 5 ELSE n - i + 1, "Paranormal",
                               IF i = engaging THEN LongDescription ELSE ""),
                    <<"id", i>>, 0)
            EXCEPT !.posted = (i = flagged)]]

InitBest ==
    /\ PostIdle
    /\ AutoFresh
    /\ StoreIdle
    /\ now = 0
    /\ cres = NoCall
    /\ pool = <<>>
    /\ selected = Pending
    /\ \E n \in CacheSizes :
          \E engaging \in 0..n, flagged \in 0..n, flat \in BOOLEAN :
              /\ reddit_cache = BestCache(n, engaging, flagged, flat)
              /\ posted_reddit = IF flagged = 0 THEN <<>> ELSE <<[post_id |-> <<"id", flagged>>]>>
              /\ marked = IF flagged = 0 THEN {} ELSE {<<"id", flagged>>}

SelectBestRedditPost ==
    /\ selected = Pending
    /\ selected' = select_best_reddit_post(reddit_cache, posted_reddit)
    /\ UNCHANGED <<pool, cacheVars, postVars, autoVars, storeVars>>

\* The caller takes the post; the next call finds the same files.
SelectBestDone ==
    /\ selected # Pending
    /\ selected' = Pending
    /\ UNCHANGED <<pool, cacheVars, postVars, autoVars, storeVars>>

NextBest ==
    \/ SelectBestRedditPost
    \/ SelectBestDone

SpecBest == InitBest /\ [][NextBest]_vars

\* The unposted posts of the cache, in the order of the cache.
UnpostedPosts == FilterUnposted(reddit_cache, PostedIds(posted_reddit))

\* How many of the posts come before post i by upvote score, the order of
\* the list deciding between equal scores.
Rank(unposted, i) ==
    Cardinality({j \in 1..Len(unposted) :
                    \/ unposted[j].score > unposted[i].score
                    \/ unposted[j].score = unposted[i].score /\ j < i})

\* The 20 posts of the list with the highest upvote score.
Top20(unposted) == {i \in 1..Len(unposted) : Rank(unposted, i) < 20}

\* C40: select_best_reddit_post returns None when no post is unposted;
\* otherwise it returns one of the 20 unposted posts with the highest
\* upvote score, one whose composite score no other of the 20 exceeds, and
\* among those of equal composite score the one ranked highest by upvote
\* score; a post outside the 20 is not returned, whatever its composite
\* score.
C40_BestOfTop20 ==
    selected # Pending =>
        \A unposted \in {UnpostedPosts} :
            IF unposted = <<>> THEN selected = None
            ELSE \E i \in Top20(unposted) :
                    /\ selected = unposted[i]
                    /\ \A j \in Top20(unposted) :
                          /\ CompositeScore(unposted[j]) <= CompositeScore(selected)
                          /\ CompositeScore(unposted[j]) = CompositeScore(selected) =>
                                Rank(unposted, i) <= Rank(unposted, j)

\* A post was returned while an unposted post outside the top 20 has a
\* higher composite score.
C40_Witness ==
    /\ selected # Pending
    /\ selected # None
    /\ \E unposted \in {UnpostedPosts} :
          \E j \in 1..Len(unposted) :
              /\ j \notin Top20(unposted)
              /\ CompositeScore(unposted[j]) > CompositeScore(selected)

\* No post is unposted: None was returned.
C40_NoneWitness ==
    /\ selected = None
    /\ Len(reddit_cache) = 1

=============================================================================
